---- MODULE Spec2Model ----
(***************************************************************************)
(* Memory-management core of the FerricOxide kernel: the static bitmap,    *)
(* the bitmap frame allocator, the recursive four-level page mapper, the   *)
(* temporary page with its three-frame scratch allocator, and the locking  *)
(* protocol of the memory entry points.                                    *)
(*                                                                         *)
(* Representation.  A u64 word of the bitmap is the set of its set bit     *)
(* positions, and the whole bitmap the set of its set bit indices          *)
(* (word w, bit b  <->  index 64*w + b).  A page-table entry is a record   *)
(* [addr, flags]; the word 0 is [addr |-> 0, flags |-> {}].  Physical      *)
(* memory holds only the frames that were ever written as tables; a table  *)
(* is reached the way the code reaches it, through the recursive slot 510  *)
(* starting at CR3.                                                        *)
(***************************************************************************)
EXTENDS Integers, Sequences, FiniteSets, TLC

VARIABLES
    build,             \* "debug" (overflow checks on) or "release" (wrapping)
    boot,              \* the boot information handed over by the prekernel
    bit_map,           \* BitmapFrameAllocator.bit_map: set of set bit indices
    total_memory,      \* BitmapFrameAllocator.total_memory
    available_memory,  \* BitmapFrameAllocator.available_memory
    mem,               \* physical memory: <<frame, index>> -> non-zero entry
    cr3,               \* frame of the PML4 the CPU walks
    scratch,           \* TemporaryPage.frame_allocator (<<>>: no TemporaryPage)
    table,             \* InactivePML4.pml4_frame, NoFrame when there is none
    pml4_backup,       \* local of ActivePML4::with while the closure runs
    pc,                \* position in mm::init: "fresh", "ready", "with", "returned",
                       \* "switched"; or "panic", "fault" once the kernel has stopped
    nops,              \* number of mapper and allocator calls made so far
    held,              \* history: frames returned by allocate(), not yet freed
    hist,              \* history: the last three calls, oldest first
    pre,               \* history: memory, bitmap and counter before the last call
    snap,              \* history: memory on entry to with()
    locks,             \* mutexes the boot CPU holds, in acquisition order
    lpc,               \* the memory entry point the boot CPU runs, or "idle"
    li,                \* index of its next lock operation
    ticks,             \* TICKS of the PIT driver
    prev_ticks,        \* history: TICKS at the previous observation
    sleep_pc,          \* position in pit_sleep: "idle", "loop", "test", "halted",
                       \* "returned"
    sleep_start,       \* local of pit_sleep
    sleep_millis,      \* argument of pit_sleep
    sleep_now,         \* the value the loop condition of pit_sleep loaded
    ports,             \* the writes made to I/O ports: <<port, value>>, in order
    elf,               \* the program headers of the embedded kernel ELF
    pk_pc,             \* position in map_kernel_to_higher_half
    pk_next,           \* index of the program header handled next
    pk_offset,         \* last_kernel_content_offset, in bytes
    pk_mem,            \* the prekernel's page tables: <<frame, index>> -> entry
    staged,            \* history: per staged header, where its bytes were put
    mm_step,           \* the statement of mm::init reached, "off" when not run
    guard,             \* the page of STACKOVERFLOW_GUARD
    heap_addr,         \* local heap_addr of mm::init, as a page
    heap,              \* what KERNEL_HEAP_ALLOCATOR was given: <<page, pages>>
    with_pc,           \* the statement of ActivePML4::with reached, or "off"
    events,            \* history: the steps of with() taken so far, in order
    madt_bytes,        \* the MADT from its first record on: offset -> byte
    madt_length,       \* the length field of the MADT header
    madt_cur,          \* cur_addr of parse_apic_sdt, as an offset into the table
    madt_out,          \* interrupt_control_structures: <<[type, at]>>
    madt_pc,           \* position in parse_apic_sdt: "off", "walk", "done"
    xsdt_length,       \* the length field of the XSDT header
    xsdt_entries,      \* the table pointers that follow the XSDT header
    sdt_list,          \* SDT_LIST: raw_addr of the tables pushed so far
    acpi_pc            \* position in enumerate_xsdt: "off", "xsdt", "tables",
                       \* "done"

(***************************************************************************)
(* Program constants and model bounds.                                     *)
(***************************************************************************)
FRAME_SIZE == 4096
MB == 1048576
WORD_BITS == 64
I32_BITS == 32

\* Number of 4 KiB frames in the modelled physical address window
\* (ADDRESS_SPACE_SIZE / FRAME_SIZE).
WindowFrames == 576
\* Most frames held at once, and most calls, in the allocator-only
\* specification.
MaxHeld == 3
MaxCalls == 5

ADDRESS_SPACE_SIZE == WindowFrames * FRAME_SIZE
FRAME_COUNT == ADDRESS_SPACE_SIZE \div FRAME_SIZE

NoFrame == -1

(***************************************************************************)
(* StaticBitmap (ds.rs).                                                   *)
(***************************************************************************)
static_bitmap_size(size) == (size + WORD_BITS - 1) \div WORD_BITS

BitmapWords == static_bitmap_size(FRAME_COUNT)

\* StaticBitmap::len
BitmapLen == BitmapWords * WORD_BITS

\* The u64 word `bitmap_idx` of the bitmap, as the set of its set bits.
WordOf(bm, bitmap_idx) ==
    {b \in 0..(WORD_BITS - 1) : bitmap_idx * WORD_BITS + b \in bm}

\* The bitmap with word `bitmap_idx` replaced by `word`.
WithWord(bm, bitmap_idx, word) ==
    (bm \ ((bitmap_idx * WORD_BITS)..(bitmap_idx * WORD_BITS + WORD_BITS - 1)))
        \cup {bitmap_idx * WORD_BITS + b : b \in word}

\* StaticBitmap::try_get for index < len: ((word >> bit_idx) & 0b1) == 1
try_get(bm, index) ==
    LET bitmap_idx == index \div WORD_BITS
        bit_idx == index % WORD_BITS
    IN  bit_idx \in WordOf(bm, bitmap_idx)

\* StaticBitmap::get; the caller handles index >= len (a panic).
get(bm, index) == try_get(bm, index)

\* StaticBitmap::set: *bitmap |= 1 << bit_idx, the literal typed u64.
set(bm, index) ==
    LET bitmap_idx == index \div WORD_BITS
        bit_idx == index % WORD_BITS
    IN  WithWord(bm, bitmap_idx, WordOf(bm, bitmap_idx) \cup {bit_idx})

\* The u64 value of `!(1 << bit_idx) as u64` in a build without overflow
\* checks, as the set of its set bits.  The literal 1 has no type hint but
\* the shift, so it is an i32: the shift amount wraps to bit_idx % 32, the
\* complement is taken in 32 bits, and the cast sign-extends it.
ClearMask(bit_idx) ==
    LET s == bit_idx % I32_BITS
        low == (0..(I32_BITS - 1)) \ {s}
    IN  IF (I32_BITS - 1) \in low
        THEN low \cup (I32_BITS..(WORD_BITS - 1))
        ELSE low

\* Whether `1 << bit_idx` on an i32 trips the overflow check of a debug build.
ShlOverflows(bit_idx) == bit_idx >= I32_BITS

\* StaticBitmap::clear: *bitmap &= !(1 << bit_idx) as u64.
\* Result: [ok |-> FALSE] on the arithmetic-overflow panic, else the bitmap.
clear(bm, index, bld) ==
    LET bitmap_idx == index \div WORD_BITS
        bit_idx == index % WORD_BITS
    IN  IF bld = "debug" /\ ShlOverflows(bit_idx)
        THEN [ok |-> FALSE, bm |-> bm]
        ELSE [ok |-> TRUE,
              bm |-> WithWord(bm, bitmap_idx,
                              WordOf(bm, bitmap_idx) \cap ClearMask(bit_idx))]

\* FirstClear with the scan run from the top of the bitmap downwards.
FirstClearFromTop(bm) ==
    IF \A i \in 0..(BitmapLen - 1) : i \in bm
    THEN NoFrame
    ELSE CHOOSE i \in 0..(BitmapLen - 1) :
            /\ i \notin bm
            /\ \A j \in (i + 1)..(BitmapLen - 1) : j \in bm

\* StaticBitmap::iter().enumerate() up to the first clear bit:
\* the lowest index below len whose bit is clear, or NoFrame.
FirstClear(bm) ==
    IF \A i \in 0..(BitmapLen - 1) : i \in bm
    THEN NoFrame
    ELSE CHOOSE i \in 0..(BitmapLen - 1) :
            /\ i \notin bm
            /\ \A j \in 0..(i - 1) : j \in bm

(***************************************************************************)
(* Boot information (Multiboot2 tags and KernelContentInfo) the allocator  *)
(* is seeded from.  Addresses are bytes.  The layout: low memory, the      *)
(* prekernel image from 1 MiB (its page tables in frames 257..261), the    *)
(* Multiboot blob after it, the staged kernel buffer at 2 MiB, RAM up to   *)
(* frame 560, a reserved firmware area after it and the framebuffer far    *)
(* above the tracked window.                                               *)
(***************************************************************************)
\* Frames of the staged kernel buffer (KERNEL_CONTENT), scaled down.
KernelFrames == 2

\* Frame the bootloader put the Multiboot blob in, right after the prekernel.
BootInfoFrames == {262, 286}

BootInputs ==
    { [ start_address |-> pe * FRAME_SIZE,
        end_address   |-> pe * FRAME_SIZE + 2048,
        fb_address    |-> 1879048192,
        fb_size       |-> 2 * FRAME_SIZE,
        memory_areas  |->
            << [start |-> 0,       end |-> 654336,  available |-> TRUE],
               [start |-> 654336,  end |-> 1048576, available |-> FALSE],
               [start |-> 1048576, end |-> 2293760, available |-> TRUE],
               [start |-> 2293760, end |-> 2326528, available |-> FALSE] >>,
        elf_sections  |->
            << [start |-> 1048576, end |-> pe * FRAME_SIZE],
               [start |-> 2097152, end |-> 2097152 + KernelFrames * FRAME_SIZE] >>,
        phys_start_addr |-> 2097152,
        phys_end_addr   |-> 2097152 + KernelFrames * FRAME_SIZE - 1 ]
      : pe \in BootInfoFrames }

(***************************************************************************)
(* BitmapFrameAllocator (frame.rs).                                        *)
(***************************************************************************)
\* mm::align_up / mm::align_down, alignment a power of two.
align_up(addr, alignment) == ((addr + alignment - 1) \div alignment) * alignment

align_down(addr, alignment) == (addr \div alignment) * alignment

\* The while loop of reserve_area: set() on the frame of every cur_addr =
\* start, start + FRAME_SIZE, ... below end (start is frame aligned).
ReserveLoop(bm, start, end) ==
    bm \cup {number \in 0..(FRAME_COUNT - 1) :
                start <= number * FRAME_SIZE /\ number * FRAME_SIZE < end}

\* BitmapFrameAllocator::reserve_area.  [ok |-> FALSE] is the failed assert.
reserve_area(bm, start0, end0) ==
    IF ~(start0 <= end0)
    THEN [ok |-> FALSE, bm |-> bm, ret |-> 0]
    ELSE LET start == align_down(start0, FRAME_SIZE)
             aligned == align_up(end0, FRAME_SIZE)
         IN  IF start >= ADDRESS_SPACE_SIZE
             THEN [ok |-> TRUE, bm |-> bm, ret |-> 0]
             ELSE LET end == IF aligned >= ADDRESS_SPACE_SIZE
                             THEN ADDRESS_SPACE_SIZE - 1
                             ELSE aligned
                  IN  [ok |-> TRUE,
                       bm |-> ReserveLoop(bm, start, end),
                       ret |-> (end - start) + 1]

\* The memory-map loop of init: reserve what is not Available, add up the rest.
RECURSIVE ReserveAreas(_, _, _, _)
ReserveAreas(bm, areas, i, total) ==
    IF i > Len(areas)
    THEN [ok |-> TRUE, bm |-> bm, total |-> total]
    ELSE IF ~areas[i].available
         THEN LET r == reserve_area(bm, areas[i].start, areas[i].end)
              IN  IF r.ok
                  THEN ReserveAreas(r.bm, areas, i + 1, total)
                  ELSE [ok |-> FALSE, bm |-> bm, total |-> total]
         ELSE ReserveAreas(bm, areas, i + 1,
                           total + (areas[i].end - areas[i].start))

\* The ELF-section loop of init: reserve each, add up what reserve_area returns.
RECURSIVE ReserveSections(_, _, _, _)
ReserveSections(bm, sections, i, unavailable) ==
    IF i > Len(sections)
    THEN [ok |-> TRUE, bm |-> bm, unavailable |-> unavailable]
    ELSE LET r == reserve_area(bm, sections[i].start, sections[i].end)
         IN  IF r.ok
             THEN ReserveSections(r.bm, sections, i + 1, unavailable + r.ret)
             ELSE [ok |-> FALSE, bm |-> bm, unavailable |-> unavailable]

\* BitmapFrameAllocator::init on a fresh allocator.  The boot inputs keep
\* total_memory >= unavailable_memory, so the final subtraction is exact.
init(bm, bi) ==
    LET r1 == reserve_area(bm, 0, MB)
        r2 == reserve_area(r1.bm, bi.start_address, bi.end_address)
        r3 == reserve_area(r2.bm, bi.fb_address, bi.fb_address + bi.fb_size)
        r4 == ReserveAreas(r3.bm, bi.memory_areas, 1, 0)
        r5 == ReserveSections(r4.bm, bi.elf_sections, 1, 0)
        r6 == reserve_area(r5.bm, bi.phys_start_addr, bi.phys_end_addr)
        unavailable_memory == r5.unavailable + r6.ret
    IN  IF r1.ok /\ r2.ok /\ r3.ok /\ r4.ok /\ r5.ok /\ r6.ok
           /\ unavailable_memory <= r4.total
        THEN [ok |-> TRUE, bm |-> r6.bm, total |-> r4.total,
              available |-> r4.total - unavailable_memory]
        ELSE [ok |-> FALSE, bm |-> bm, total |-> 0, available |-> 0]

\* allocate without the early return on available_memory < FRAME_SIZE.
allocate_unchecked(bm, available) ==
    LET res_frame == FirstClear(bm)
    IN  [frame |-> res_frame,
         bm |-> IF res_frame # NoFrame THEN set(bm, res_frame) ELSE bm,
         available |-> available - FRAME_SIZE]

\* BitmapFrameAllocator::allocate.  frame = NoFrame is None.
allocate(bm, available) ==
    IF available < FRAME_SIZE
    THEN [frame |-> NoFrame, bm |-> bm, available |-> available]
    ELSE LET res_frame == FirstClear(bm)
         IN  [frame |-> res_frame,
              bm |-> IF res_frame # NoFrame THEN set(bm, res_frame) ELSE bm,
              available |-> available - FRAME_SIZE]

\* BitmapFrameAllocator::deallocate.  [ok |-> FALSE] is a panic: the index
\* check of get, "attempt to free an unused frame", or the overflow in clear.
deallocate(bm, available, number, bld) ==
    IF number >= BitmapLen \/ ~get(bm, number)
    THEN [ok |-> FALSE, bm |-> bm, available |-> available]
    ELSE LET c == clear(bm, number, bld)
         IN  IF c.ok
             THEN [ok |-> TRUE, bm |-> c.bm, available |-> available + FRAME_SIZE]
             ELSE [ok |-> FALSE, bm |-> bm, available |-> available]

(***************************************************************************)
(* Page-table entries and physical memory (paging.rs).                     *)
(***************************************************************************)
ENTRY_COUNT == 512
RECURSIVE_INDEX == 510

Fault == -2
Panic == -3

Unused == [addr |-> 0, flags |-> {}]

\* PageTableEntry::set; every frame of the model passes its address assert.
Entry(frame, flags) == [addr |-> frame, flags |-> flags]

\* PageTableEntry::is_unused
is_unused(e) == e = Unused

\* PageTableEntry::pointed_frame
pointed_frame(e) == IF "PRESENT" \in e.flags THEN e.addr ELSE NoFrame

Read(m, f, i) == IF <<f, i>> \in DOMAIN m THEN m[<<f, i>>] ELSE Unused

Write(m, f, i, e) ==
    IF e = Unused
    THEN [x \in DOMAIN m \ {<<f, i>>} |-> m[x]]
    ELSE [x \in DOMAIN m \cup {<<f, i>>} |-> IF x = <<f, i>> THEN e ELSE m[x]]

\* set_unused that leaves the entry as it is.
set_unused_kept(m, f, i) == m

\* PageTableEntry::set_unused on entry i of the table in frame f.
set_unused(m, f, i) == Write(m, f, i, Unused)

\* PageTable::zero on the table in frame f.
zero(m, f) == [x \in {y \in DOMAIN m : y[1] # f} |-> m[x]]

(***************************************************************************)
(* Pages.  A page is the four 9-bit digits of its number, most significant *)
(* first: pml4_index, pdpt_index, pdt_index, pt_index.                     *)
(***************************************************************************)
pml4_index(page) == page[1]
pdpt_index(page) == page[2]
pdt_index(page) == page[3]
pt_index(page) == page[4]

\* The page with the given number (Page { number }).
PageOf(number) ==
    << (number \div (ENTRY_COUNT * ENTRY_COUNT * ENTRY_COUNT)) % ENTRY_COUNT,
       (number \div (ENTRY_COUNT * ENTRY_COUNT)) % ENTRY_COUNT,
       (number \div ENTRY_COUNT) % ENTRY_COUNT,
       number % ENTRY_COUNT >>

\* Page::containing_address(frame.start_address()) of identity_map.
PageOfFrame(number) == PageOf(number)

\* The hardware walk of the virtual page with digits idx, from the PML4 in
\* frame c: the frame it ends in, or Fault.  A present HUGE entry ends the
\* walk at the PDPT (1 GiB) or PDT (2 MiB) level.
HwWalk(m, c, idx) ==
    LET e4 == Read(m, c, idx[1])
    IN  IF "PRESENT" \notin e4.flags \/ "HUGE_PAGE" \in e4.flags THEN Fault
        ELSE LET e3 == Read(m, e4.addr, idx[2])
             IN  IF "PRESENT" \notin e3.flags THEN Fault
                 ELSE IF "HUGE_PAGE" \in e3.flags
                      THEN e3.addr + idx[3] * ENTRY_COUNT + idx[4]
                 ELSE LET e2 == Read(m, e3.addr, idx[3])
                      IN  IF "PRESENT" \notin e2.flags THEN Fault
                          ELSE IF "HUGE_PAGE" \in e2.flags
                               THEN e2.addr + idx[4]
                          ELSE LET e1 == Read(m, e2.addr, idx[4])
                               IN  IF "PRESENT" \notin e1.flags THEN Fault
                                   ELSE e1.addr

\* The frame behind the table the code addresses recursively: PML4_ADDR for
\* the empty path, and next_table_addr of P4, P3, P2 for the longer ones.
TableAt(m, c, path) ==
    LET R == RECURSIVE_INDEX
    IN  CASE Len(path) = 0 -> HwWalk(m, c, <<R, R, R, R>>)
          [] Len(path) = 1 -> HwWalk(m, c, <<R, R, R, path[1]>>)
          [] Len(path) = 2 -> HwWalk(m, c, <<R, R, path[1], path[2]>>)
          [] Len(path) = 3 -> HwWalk(m, c, <<R, path[1], path[2], path[3]>>)

\* next_table_addr_generic: the entry refers to a next-level table.
HasNext(e) == "PRESENT" \in e.flags /\ "HUGE_PAGE" \notin e.flags

(***************************************************************************)
(* Frame allocators behind `impl FrameAllocator`.  An execution state st   *)
(* is [mem, bm, avail, scratch, status]; status is "ok", "panic" (a failed *)
(* assert, unwrap or expect) or "fault" (a table access whose hardware     *)
(* walk fails).                                                            *)
(***************************************************************************)
\* ThreeFramesAllocator::allocate: take the first slot that is Some.
scratch_allocate(sc) ==
    IF \A i \in 1..Len(sc) : sc[i] = NoFrame
    THEN [frame |-> NoFrame, sc |-> sc]
    ELSE LET i == CHOOSE k \in 1..Len(sc) :
                    sc[k] # NoFrame /\ \A j \in 1..(k - 1) : sc[j] = NoFrame
         IN  [frame |-> sc[i], sc |-> [sc EXCEPT ![i] = NoFrame]]

\* ThreeFramesAllocator::deallocate: fill the first slot that is None, if any.
scratch_deallocate(sc, frame) ==
    IF \A i \in 1..Len(sc) : sc[i] # NoFrame
    THEN sc
    ELSE LET i == CHOOSE k \in 1..Len(sc) :
                    sc[k] = NoFrame /\ \A j \in 1..(k - 1) : sc[j] # NoFrame
         IN  [sc EXCEPT ![i] = frame]

\* frame_allocator.allocate() on the allocator of the given kind.
AllocFrom(st, kind) ==
    IF kind = "bitmap"
    THEN LET r == allocate(st.bm, st.avail)
         IN  [frame |-> r.frame,
              st |-> [st EXCEPT !.bm = r.bm, !.avail = r.available]]
    ELSE LET r == scratch_allocate(st.scratch)
         IN  [frame |-> r.frame, st |-> [st EXCEPT !.scratch = r.sc]]

\* frame_allocator.deallocate(frame) on the allocator of the given kind.
DeallocTo(st, kind, frame, bld) ==
    IF kind = "bitmap"
    THEN LET r == deallocate(st.bm, st.avail, frame, bld)
         IN  IF r.ok
             THEN [st EXCEPT !.bm = r.bm, !.avail = r.available]
             ELSE [st EXCEPT !.status = "panic"]
    ELSE [st EXCEPT !.scratch = scratch_deallocate(st.scratch, frame)]

(***************************************************************************)
(* Mapper (paging.rs).                                                     *)
(***************************************************************************)
\* The closure huge_page of translate_page, given the PDPT entry e3 and the
\* frame p2 of the PDT when e3 refers to one.
huge_page(m, e3, p2, page) ==
    IF "PRESENT" \in e3.flags /\ "HUGE_PAGE" \in e3.flags
    THEN IF e3.addr % (ENTRY_COUNT * ENTRY_COUNT) # 0
         THEN Panic
         ELSE e3.addr + pdt_index(page) * ENTRY_COUNT + pt_index(page)
    ELSE IF HasNext(e3)
         THEN LET e2 == Read(m, p2, pdt_index(page))
              IN  IF "PRESENT" \in e2.flags /\ "HUGE_PAGE" \in e2.flags
                  THEN IF e2.addr % ENTRY_COUNT # 0
                       THEN Panic
                       ELSE e2.addr + pt_index(page)
                  ELSE NoFrame
         ELSE NoFrame

\* Mapper::translate_page: the frame, NoFrame (None), Panic or Fault.
translate_page(m, c, page) ==
    LET p4 == TableAt(m, c, <<>>)
    IN  IF p4 = Fault THEN Fault
        ELSE IF ~HasNext(Read(m, p4, pml4_index(page))) THEN NoFrame
        ELSE
        LET p3 == TableAt(m, c, <<pml4_index(page)>>)
        IN  IF p3 = Fault THEN Fault
            ELSE
            LET e3 == Read(m, p3, pdpt_index(page))
                p2 == IF HasNext(e3)
                      THEN TableAt(m, c, <<pml4_index(page), pdpt_index(page)>>)
                      ELSE NoFrame
            IN  IF p2 = Fault THEN Fault
                ELSE IF ~HasNext(e3) THEN huge_page(m, e3, p2, page)
                ELSE
                LET e2 == Read(m, p2, pdt_index(page))
                IN  IF ~HasNext(e2) THEN huge_page(m, e3, p2, page)
                    ELSE
                    LET p1 == TableAt(m, c, <<pml4_index(page), pdpt_index(page),
                                              pdt_index(page)>>)
                    IN  IF p1 = Fault THEN Fault
                        ELSE
                        LET f == pointed_frame(Read(m, p1, pt_index(page)))
                        IN  IF f # NoFrame THEN f
                            ELSE huge_page(m, e3, p2, page)

\* translate that returns the start of the frame, the offset dropped.
translate_frame_start(m, c, page, offset) ==
    LET f == translate_page(m, c, page)
    IN  IF f >= 0 THEN f * FRAME_SIZE ELSE f

\* Mapper::translate of the address `offset` bytes into `page`.
translate(m, c, page, offset) ==
    LET f == translate_page(m, c, page)
    IN  IF f >= 0 THEN f * FRAME_SIZE + offset ELSE f

\* PageTable::next_table_create_inner on the table in frame t, given the
\* result `a` of frame_allocator.allocate(); None fails the expect.
next_table_create_inner(a, t, index) ==
    IF a.frame = NoFrame
    THEN [a.st EXCEPT !.status = "panic"]
    ELSE [a.st EXCEPT !.mem = Write(@, t, index,
                                    Entry(a.frame, {"PRESENT", "WRITABLE"}))]

\* self.next_table_mut(index).unwrap().zero() of next_table_create: the new
\* table is reached through its recursive address.
next_table_zero(st, c, path, index) ==
    IF st.status # "ok" THEN st
    ELSE LET child == TableAt(st.mem, c, Append(path, index))
         IN  IF child = Fault
             THEN [st EXCEPT !.status = "fault"]
             ELSE [st EXCEPT !.mem = zero(@, child)]

\* The closing self.next_table_mut(index).unwrap() of next_table_create.
next_table_unwrap(st, c, path, index) ==
    IF st.status # "ok" THEN st
    ELSE LET t == TableAt(st.mem, c, path)
         IN  IF t = Fault THEN [st EXCEPT !.status = "fault"]
             ELSE IF ~HasNext(Read(st.mem, t, index))
             THEN [st EXCEPT !.status = "panic"]
             ELSE st

\* PageTable::next_table_create on the table at `path`, for `index`.
next_table_create(st, c, path, index, kind) ==
    IF st.status # "ok" THEN st
    ELSE
    LET t == TableAt(st.mem, c, path)
    IN  IF t = Fault THEN [st EXCEPT !.status = "fault"]
        ELSE
        LET e == Read(st.mem, t, index)
        IN  IF HasNext(e) THEN st
            ELSE IF "PRESENT" \in e.flags THEN [st EXCEPT !.status = "panic"]
            ELSE next_table_unwrap(
                     next_table_zero(
                         next_table_create_inner(AllocFrom(st, kind), t, index),
                         c, path, index),
                     c, path, index)

\* The final write of map_to: the flags the P1 entry gets.
MapToFlags(flags) == flags \cup {"PRESENT", "WRITABLE"}

\* The end of map_to, the three tables created: assert!(p1[..].is_unused())
\* and the write of the P1 entry.
map_to_entry(st, c, page, frame, flags) ==
    IF st.status # "ok" THEN st
    ELSE
    LET pt == TableAt(st.mem, c, <<pml4_index(page), pdpt_index(page),
                                   pdt_index(page)>>)
    IN  IF pt = Fault THEN [st EXCEPT !.status = "fault"]
        ELSE IF ~is_unused(Read(st.mem, pt, pt_index(page)))
        THEN [st EXCEPT !.status = "panic"]
        ELSE [st EXCEPT !.mem = Write(@, pt, pt_index(page),
                                      Entry(frame, MapToFlags(flags)))]

\* Mapper::map_to
map_to(st, c, page, frame, flags, kind) ==
    map_to_entry(
        next_table_create(
            next_table_create(
                next_table_create(st, c, <<>>, pml4_index(page), kind),
                c, <<pml4_index(page)>>, pdpt_index(page), kind),
            c, <<pml4_index(page), pdpt_index(page)>>, pdt_index(page), kind),
        c, page, frame, flags)

\* Mapper::map after its allocate() has returned `a`; None fails the expect.
map_frame(a, c, page, flags, kind) ==
    IF a.frame = NoFrame
    THEN [a.st EXCEPT !.status = "panic"]
    ELSE map_to(a.st, c, page, a.frame, flags, kind)

\* Mapper::map
map(st, c, page, flags, kind) ==
    map_frame(AllocFrom(st, kind), c, page, flags, kind)

\* Mapper::identity_map
identity_map(st, c, frame, flags, kind) ==
    map_to(st, c, PageOfFrame(frame), frame, flags, kind)

\* Mapper::unmap
unmap(st, c, page, kind, bld) ==
    LET tr == translate_page(st.mem, c, page)
    IN  IF tr = Fault THEN [st EXCEPT !.status = "fault"]
        ELSE IF tr < 0 THEN [st EXCEPT !.status = "panic"]
        ELSE
        LET p4 == TableAt(st.mem, c, <<>>)
            ok4 == HasNext(Read(st.mem, p4, pml4_index(page)))
            p3 == TableAt(st.mem, c, <<pml4_index(page)>>)
            ok3 == ok4 /\ p3 # Fault /\ HasNext(Read(st.mem, p3, pdpt_index(page)))
            p2 == TableAt(st.mem, c, <<pml4_index(page), pdpt_index(page)>>)
            ok2 == ok3 /\ p2 # Fault /\ HasNext(Read(st.mem, p2, pdt_index(page)))
            pt == TableAt(st.mem, c, <<pml4_index(page), pdpt_index(page),
                                       pdt_index(page)>>)
        IN  IF ~ok2 THEN [st EXCEPT !.status = "panic"]
            ELSE IF pt = Fault THEN [st EXCEPT !.status = "fault"]
            ELSE
            LET frame == pointed_frame(Read(st.mem, pt, pt_index(page)))
            IN  IF frame = NoFrame THEN [st EXCEPT !.status = "panic"]
                ELSE DeallocTo([st EXCEPT !.mem = set_unused(st.mem, pt, pt_index(page))],
                               kind, frame, bld)

(***************************************************************************)
(* TemporaryPage and InactivePML4 (paging.rs), as mm::init sets them up.   *)
(***************************************************************************)
TEMP_PAGE_NUMBER == 69420420

TempPage == PageOf(TEMP_PAGE_NUMBER)

\* One f() of ThreeFramesAllocator::new: the frame allocate() returned
\* becomes the next element of the array.
TakeFrame(a) == [a.st EXCEPT !.scratch = Append(@, a.frame)]

\* ThreeFramesAllocator::new: three allocate() calls on the bitmap allocator.
ThreeFramesAllocator_new(st) ==
    TakeFrame(AllocFrom(
        TakeFrame(AllocFrom(
            TakeFrame(AllocFrom([st EXCEPT !.scratch = <<>>], "bitmap")),
            "bitmap")),
        "bitmap"))

\* TemporaryPage::map (and map_table_frame)
temp_map(st, c, frame) ==
    LET tr == translate_page(st.mem, c, TempPage)
    IN  IF tr = Fault THEN [st EXCEPT !.status = "fault"]
        ELSE IF tr # NoFrame THEN [st EXCEPT !.status = "panic"]
        ELSE map_to(st, c, TempPage, frame, {"WRITABLE"}, "scratch")

\* TemporaryPage::unmap
temp_unmap(st, c, bld) ==
    IF st.status # "ok" THEN st ELSE unmap(st, c, TempPage, "scratch", bld)

\* A store through the temporary page's address into entry `index` of the
\* table it shows.
TempStore(st, c, index, e) ==
    IF st.status # "ok" THEN st
    ELSE LET f == HwWalk(st.mem, c, TempPage)
         IN  IF f = Fault THEN [st EXCEPT !.status = "fault"]
             ELSE [st EXCEPT !.mem = Write(st.mem, f, index, e)]

\* table.zero() through the temporary page's address.
TempZero(st, c) ==
    IF st.status # "ok" THEN st
    ELSE LET f == HwWalk(st.mem, c, TempPage)
         IN  IF f = Fault THEN [st EXCEPT !.status = "fault"]
             ELSE [st EXCEPT !.mem = zero(st.mem, f)]

\* InactivePML4::new
InactivePML4_new(st, c, frame, bld) ==
    temp_unmap(
        TempStore(TempZero(temp_map(st, c, frame), c), c, RECURSIVE_INDEX,
                  Entry(frame, {"PRESENT", "WRITABLE"})),
        c, bld)

\* self.pml4[510].set(..) of with: a store into the PML4 through PML4_ADDR.
P4Store(st, c, index, e) ==
    IF st.status # "ok" THEN st
    ELSE LET p4 == TableAt(st.mem, c, <<>>)
         IN  IF p4 = Fault THEN [st EXCEPT !.status = "fault"]
             ELSE [st EXCEPT !.mem = Write(@, p4, index, e)]

\* ActivePML4::with up to the call of the closure.
with_enter(st, c, tbl) ==
    P4Store(temp_map(st, c, c), c, RECURSIVE_INDEX,
            Entry(tbl, {"PRESENT", "WRITABLE"}))

\* ActivePML4::with after the closure has returned.
with_exit(st, c, backup, bld) ==
    temp_unmap(
        TempStore(st, c, RECURSIVE_INDEX, Entry(backup, {"PRESENT", "WRITABLE"})),
        c, bld)

(***************************************************************************)
(* The page tables the prekernel leaves behind (map_kernel_to_higher_half):*)
(* identity 2 MiB pages under PML4[0], the kernel image under PML4[511],   *)
(* and the recursive slot.  Only the first IdentityPdtEntries entries of   *)
(* the identity PDT are kept.                                              *)
(***************************************************************************)
PML4_FRAME == 257
PDPT_FRAME == 258
PDT_FRAME == 259
HIGHER_HALF_PDPT_FRAME == 260
HIGHER_HALF_PDT_FRAME == 261

IdentityPdtEntries == 2

HugeFlags == {"PRESENT", "WRITABLE", "HUGE_PAGE"}
TableFlags == {"PRESENT", "WRITABLE"}

PrekernelTables(bi) ==
    LET fixed ==
            { <<PML4_FRAME, 0>>, <<PDPT_FRAME, 0>>, <<PML4_FRAME, ENTRY_COUNT - 1>>,
              <<HIGHER_HALF_PDPT_FRAME, RECURSIVE_INDEX>>,
              <<HIGHER_HALF_PDT_FRAME, 0>>, <<PML4_FRAME, RECURSIVE_INDEX>> }
        ident == { <<PDT_FRAME, i>> : i \in 0..(IdentityPdtEntries - 1) }
    IN  [x \in fixed \cup ident |->
            IF x = <<PML4_FRAME, 0>> THEN Entry(PDPT_FRAME, TableFlags)
            ELSE IF x = <<PDPT_FRAME, 0>> THEN Entry(PDT_FRAME, TableFlags)
            ELSE IF x = <<PML4_FRAME, ENTRY_COUNT - 1>>
                 THEN Entry(HIGHER_HALF_PDPT_FRAME, TableFlags)
            ELSE IF x = <<HIGHER_HALF_PDPT_FRAME, RECURSIVE_INDEX>>
                 THEN Entry(HIGHER_HALF_PDT_FRAME, TableFlags)
            ELSE IF x = <<HIGHER_HALF_PDT_FRAME, 0>>
                 THEN Entry(bi.phys_start_addr \div FRAME_SIZE, HugeFlags)
            ELSE IF x = <<PML4_FRAME, RECURSIVE_INDEX>>
                 THEN Entry(PML4_FRAME, TableFlags)
            ELSE Entry(x[2] * ENTRY_COUNT, HugeFlags)]

(***************************************************************************)
(* State machine of the mapper and the allocator.                          *)
(***************************************************************************)
memvars == <<build, boot, bit_map, total_memory, available_memory, mem, cr3,
             scratch, table, pml4_backup, pc, nops, held, hist, pre, snap>>
lockvars == <<locks, lpc, li>>
pitvars == <<ticks, prev_ticks, sleep_pc, sleep_start, sleep_millis, sleep_now,
             ports>>
\* What the memory and lock state machines leave alone.
pkvars == <<elf, pk_pc, pk_next, pk_offset, pk_mem, staged>>
mmvars == <<mm_step, guard, heap_addr, heap>>
withvars == <<with_pc, events>>
madtvars == <<madt_bytes, madt_length, madt_cur, madt_out, madt_pc>>
acpivars == <<xsdt_length, xsdt_entries, sdt_list, acpi_pc>>
auxvars == <<withvars, madtvars, acpivars>>
othervars == <<pitvars, pkvars, mmvars, auxvars>>
vars == <<memvars, lockvars, othervars>>

\* The PIT driver before interrupts are enabled: TICKS is AtomicU64::new(0).
PitReset ==
    /\ ticks = 0
    /\ prev_ticks = 0
    /\ sleep_pc = "idle"
    /\ sleep_start = 0
    /\ sleep_millis = 0
    /\ sleep_now = 0
    /\ ports = <<>>

\* The prekernel's state where it is not run: no ELF, its tables all zero.
PkReset ==
    /\ elf = <<>>
    /\ pk_pc = "off"
    /\ pk_next = 0
    /\ pk_offset = 0
    /\ pk_mem = <<>>
    /\ staged = <<>>

\* mm::init where its statements are not followed one by one.
MmReset ==
    /\ mm_step = "off"
    /\ guard = <<>>
    /\ heap_addr = <<>>
    /\ heap = <<>>

\* with() where its statements are not followed one by one.
WithReset ==
    /\ with_pc = "off"
    /\ events = <<>>

\* No MADT is being parsed.
MadtReset ==
    /\ madt_bytes = <<>>
    /\ madt_length = 0
    /\ madt_cur = 0
    /\ madt_out = <<>>
    /\ madt_pc = "off"

\* acpi::init has not been called.
AcpiReset ==
    /\ xsdt_length = 0
    /\ xsdt_entries = <<>>
    /\ sdt_list = <<>>
    /\ acpi_pc = "off"

AuxReset == WithReset /\ MadtReset /\ AcpiReset

\* Initial value of the state outside the memory and lock state machines.
OtherReset == PitReset /\ PkReset /\ MmReset /\ AuxReset

\* Most mapper and allocator calls in one behaviour.
MaxOps == 3

PageA == <<0, 1, 0, 0>>
PageB == <<0, 1, 0, 1>>
PageC == <<1, 0, 0, 0>>
RecursivePage == <<RECURSIVE_INDEX, RECURSIVE_INDEX, RECURSIVE_INDEX, RECURSIVE_INDEX>>

\* A frame inside usable RAM that nothing reserves.
FREE_FRAME == 300
\* The frame of the VGA text buffer at 0xb8000, inside the reserved low 1 MiB.
VGA_FRAME == 184

KernelFrame == boot.phys_start_addr \div FRAME_SIZE

MapPages == {PageA, PageB, PageC}
MapToPages == {PageA, PageC}
MapPagesFresh == {PageA, PageB}
MapFrames == {PDPT_FRAME, VGA_FRAME, KernelFrame}
MapFlags == {{"PRESENT"}}
IdentityFrames == {FREE_FRAME}
UnmapPages == MapPages \cup {RecursivePage} \cup {PageOfFrame(f) : f \in IdentityFrames}

\* Every page whose translation the properties look at.
WatchedPages == UnmapPages \cup {TempPage, PageOfFrame(PML4_FRAME)}

Cur == [mem |-> mem, bm |-> bit_map, avail |-> available_memory,
        scratch |-> scratch, status |-> "ok"]

\* Points of mm::init at which mapper and allocator calls are made: before
\* with, inside its closure, and after the switch.
Running == pc \in {"ready", "with", "switched"}

Call(op, page, frame, flags, ret) ==
    [op |-> op, page |-> page, frame |-> frame, flags |-> flags, ret |-> ret]

Remember(c) == IF Len(hist) < 3 THEN Append(hist, c) ELSE Append(Tail(hist), c)

\* The effect of a call that ended in execution state st; a call that
\* returns leaves the caller at position `to` and enters the history.
CommitMem(st, c, to) ==
    /\ mem' = st.mem
    /\ bit_map' = st.bm
    /\ available_memory' = st.avail
    /\ scratch' = st.scratch
    /\ pc' = IF st.status = "ok" THEN to ELSE st.status
    /\ hist' = IF st.status = "ok" THEN Remember(c) ELSE hist
    /\ pre' = IF st.status = "ok"
              THEN [mem |-> mem, bm |-> bit_map, avail |-> available_memory]
              ELSE pre

\* CommitMem of a call made where mm::init's statements are not followed.
Commit(st, c, to) ==
    /\ CommitMem(st, c, to)
    /\ UNCHANGED <<build, boot, lockvars, othervars>>

Init ==
    /\ build \in {"debug", "release"}
    /\ boot \in BootInputs
    /\ bit_map = {}
    /\ total_memory = 0
    /\ available_memory = 0
    /\ mem = PrekernelTables(boot)
    /\ cr3 = PML4_FRAME
    /\ scratch = <<>>
    /\ table = NoFrame
    /\ pml4_backup = NoFrame
    /\ pc = "fresh"
    /\ nops = 0
    /\ held = {}
    /\ hist = <<>>
    /\ pre = [mem |-> mem, bm |-> {}, avail |-> 0]
    /\ snap = mem
    /\ locks = <<>>
    /\ lpc = "idle"
    /\ li = 0
    /\ OtherReset

\* FRAME_ALLOCATOR.lock().init()
AllocInit ==
    /\ pc = "fresh"
    /\ \E r \in {init(bit_map, boot)} :
           /\ bit_map' = r.bm
           /\ total_memory' = r.total
           /\ available_memory' = r.available
           /\ pc' = IF r.ok THEN "ready" ELSE "panic"
    /\ pre' = [mem |-> mem, bm |-> bit_map, avail |-> available_memory]
    /\ hist' = Remember(Call("init", <<>>, NoFrame, {}, 0))
    /\ UNCHANGED <<build, boot, mem, cr3, scratch, table, pml4_backup, nops,
                   held, snap, lockvars, othervars>>

\* FRAME_ALLOCATOR.lock().allocate()
DoAllocate ==
    /\ \E a \in {AllocFrom(Cur, "bitmap")} :
           /\ Commit(a.st, Call("allocate", <<>>, NoFrame, {}, a.frame), pc)
           /\ held' = IF a.frame # NoFrame THEN held \cup {a.frame} ELSE held
    /\ nops' = nops + 1
    /\ UNCHANGED <<total_memory, cr3, table, pml4_backup, snap>>

\* FRAME_ALLOCATOR.lock().deallocate(frame)
DoDeallocate(frame) ==
    /\ Commit(DeallocTo(Cur, "bitmap", frame, build),
              Call("deallocate", <<>>, frame, {}, 0), pc)
    /\ held' = held \ {frame}
    /\ nops' = nops + 1
    /\ UNCHANGED <<total_memory, cr3, table, pml4_backup, snap>>

Allocate == Running /\ nops < MaxOps /\ DoAllocate

MapTo(page, frame, flags) ==
    /\ Running /\ nops < MaxOps
    /\ Commit(map_to(Cur, cr3, page, frame, flags, "bitmap"),
              Call("map_to", page, frame, flags, 0), pc)
    /\ nops' = nops + 1
    /\ UNCHANGED <<total_memory, cr3, table, pml4_backup, held, snap>>

Map(page, flags) ==
    /\ Running /\ nops < MaxOps
    /\ Commit(map(Cur, cr3, page, flags, "bitmap"),
              Call("map", page, NoFrame, flags, 0), pc)
    /\ nops' = nops + 1
    /\ UNCHANGED <<total_memory, cr3, table, pml4_backup, held, snap>>

IdentityMap(frame, flags) ==
    /\ Running /\ nops < MaxOps
    /\ Commit(identity_map(Cur, cr3, frame, flags, "bitmap"),
              Call("identity_map", PageOfFrame(frame), frame, flags, 0), pc)
    /\ nops' = nops + 1
    /\ UNCHANGED <<total_memory, cr3, table, pml4_backup, held, snap>>

Unmap(page) ==
    /\ Running /\ nops < MaxOps
    /\ Commit(unmap(Cur, cr3, page, "bitmap", build),
              Call("unmap", page, NoFrame, {}, 0), pc)
    /\ nops' = nops + 1
    /\ UNCHANGED <<total_memory, cr3, table, pml4_backup, held, snap>>

\* mm::init up to the call of with: allocator init, TemporaryPage::new and
\* InactivePML4::new on a freshly allocated frame.
MmSetup ==
    /\ pc = "fresh"
    /\ \E r \in {init(bit_map, boot)} :
       \E a \in {AllocFrom(ThreeFramesAllocator_new(
                               [Cur EXCEPT !.bm = r.bm, !.avail = r.available]),
                           "bitmap")} :
       \E st \in {IF ~r.ok \/ a.frame = NoFrame
                  THEN [a.st EXCEPT !.status = "panic"]
                  ELSE InactivePML4_new(a.st, cr3, a.frame, build)} :
           /\ Commit(st, Call("mm_setup", TempPage, a.frame, {}, 0), "ready")
           /\ total_memory' = r.total
           /\ table' = IF st.status = "ok" THEN a.frame ELSE NoFrame
    /\ UNCHANGED <<cr3, pml4_backup, nops, held, snap>>

\* ActivePML4::with: entry, up to the call of the closure
WithEnter ==
    /\ pc = "ready" /\ scratch # <<>> /\ table # NoFrame
    /\ LET st == with_enter(Cur, cr3, table)
       IN  Commit(st, Call("with_enter", <<>>, table, {}, 0), "with")
    /\ pml4_backup' = cr3
    /\ snap' = mem
    /\ UNCHANGED <<total_memory, cr3, table, nops, held>>

\* ActivePML4::with: the closure has returned
WithExit ==
    /\ pc = "with"
    /\ LET st == with_exit(Cur, cr3, pml4_backup, build)
       IN  Commit(st, Call("with_exit", <<>>, table, {}, 0), "returned")
    /\ pml4_backup' = NoFrame
    /\ UNCHANGED <<total_memory, cr3, table, nops, held, snap>>

\* ActivePML4::switch(new_table); mm::init drops the table it returns
Switch ==
    /\ pc = "returned" /\ table # NoFrame
    /\ cr3' = table
    /\ table' = NoFrame
    /\ pc' = "switched"
    /\ hist' = Remember(Call("switch", <<>>, table, {}, 0))
    /\ pre' = [mem |-> mem, bm |-> bit_map, avail |-> available_memory]
    /\ UNCHANGED <<build, boot, bit_map, total_memory, available_memory, mem,
                   scratch, pml4_backup, nops, held, snap, lockvars, othervars>>

Next ==
    \/ MmSetup
    \/ Allocate
    \/ \E page \in MapToPages, frame \in MapFrames, flags \in MapFlags :
            MapTo(page, frame, flags)
    \/ \E page \in MapPagesFresh, flags \in MapFlags : Map(page, flags)
    \/ \E frame \in IdentityFrames, flags \in MapFlags : IdentityMap(frame, flags)
    \/ \E page \in UnmapPages : Unmap(page)
    \/ WithEnter
    \/ WithExit
    \/ Switch

Spec == Init /\ [][Next]_vars

(***************************************************************************)
(* StaticBitmap on its own: set and clear on a bitmap of BitmapLen bits.   *)
(***************************************************************************)
\* Indices the calls are made with: both halves of a word, the bits next to
\* the 32-bit boundary, the ends of a word and the doc example's index 10.
BitIndices == {0, 10, 31, 32, 33, 63, 64, 100}

InitBitmap ==
    /\ build \in {"debug", "release"}
    /\ boot = CHOOSE bi \in BootInputs : TRUE
    /\ bit_map \in {{}, {35}, {0, 63, 64}}
    /\ total_memory = 0
    /\ available_memory = 0
    /\ mem = <<>>
    /\ cr3 = NoFrame
    /\ scratch = <<>>
    /\ table = NoFrame
    /\ pml4_backup = NoFrame
    /\ pc = "ready"
    /\ nops = 0
    /\ held = {}
    /\ hist = <<>>
    /\ pre = [mem |-> <<>>, bm |-> bit_map, avail |-> 0]
    /\ snap = <<>>
    /\ locks = <<>>
    /\ lpc = "idle"
    /\ li = 0
    /\ OtherReset

\* StaticBitmap::set(index)
BitmapSet(index) ==
    /\ pc = "ready" /\ nops < MaxOps
    /\ bit_map' = set(bit_map, index)
    /\ hist' = Remember(Call("set", <<>>, index, {}, 0))
    /\ pre' = [pre EXCEPT !.bm = bit_map]
    /\ nops' = nops + 1
    /\ UNCHANGED <<build, boot, total_memory, available_memory, mem, cr3, scratch,
                   table, pml4_backup, pc, held, snap, lockvars, othervars>>

\* StaticBitmap::clear(index)
BitmapClear(index) ==
    /\ pc = "ready" /\ nops < MaxOps
    /\ LET r == clear(bit_map, index, build)
       IN  /\ bit_map' = r.bm
           /\ pc' = IF r.ok THEN pc ELSE "panic"
           /\ hist' = IF r.ok THEN Remember(Call("clear", <<>>, index, {}, 0)) ELSE hist
           /\ pre' = IF r.ok THEN [pre EXCEPT !.bm = bit_map] ELSE pre
    /\ nops' = nops + 1
    /\ UNCHANGED <<build, boot, total_memory, available_memory, mem, cr3, scratch,
                   table, pml4_backup, held, snap, lockvars, othervars>>

NextBitmap ==
    \/ \E index \in BitIndices : BitmapSet(index)
    \/ \E index \in BitIndices : BitmapClear(index)

SpecBitmap == InitBitmap /\ [][NextBitmap]_vars

\* The last call and the one before it, when there are such.
Last == hist[Len(hist)]
Prev == hist[Len(hist) - 1]

\* get(j) is what it was before the last call, for every j but index.
OthersKept(index) ==
    \A j \in (0..(BitmapLen - 1)) \ {index} : get(bit_map, j) = get(pre.bm, j)

\* C7: for any index i below len(): after set(i), get(i) is true; after a
\* clear(i) that follows it, get(i) is false; and neither call changes get(j)
\* for any j other than i.
C7_SetClearRoundTrip ==
    /\ (Len(hist) >= 1 /\ Last.op = "set")
            => (get(bit_map, Last.frame) /\ OthersKept(Last.frame))
    /\ (Len(hist) >= 2 /\ Last.op = "clear" /\ Prev.op = "set"
            /\ Prev.frame = Last.frame)
            => (~get(bit_map, Last.frame) /\ OthersKept(Last.frame))

\* C7, the case that holds: set(i) then clear(i) on an index whose bit
\* position in the word is below 31.
C7_Witness ==
    /\ Len(hist) >= 2 /\ Last.op = "clear" /\ Prev.op = "set"
    /\ Prev.frame = Last.frame /\ Last.frame = 10
    /\ ~get(bit_map, 10) /\ OthersKept(10)

(***************************************************************************)
(* The bitmap frame allocator on its own: init, then allocate() and        *)
(* deallocate(f) on frames the caller holds.                               *)
(***************************************************************************)
HeldAllocate ==
    /\ pc = "ready" /\ nops < MaxCalls /\ Cardinality(held) < MaxHeld
    /\ DoAllocate

HeldDeallocate(frame) ==
    /\ pc = "ready" /\ nops < MaxCalls /\ frame \in held
    /\ DoDeallocate(frame)

NextAlloc ==
    \/ AllocInit
    \/ HeldAllocate
    \/ \E frame \in held : HeldDeallocate(frame)

SpecAlloc == Init /\ [][NextAlloc]_vars

\* C1: after init() and any sequence of allocate() and deallocate(f) calls on
\* held frames, available_memory = total_memory - 4096 * (number of frames
\* returned by allocate and not yet deallocated).
C1_AvailableTracksHeld ==
    pc = "ready" => available_memory = total_memory - FRAME_SIZE * Cardinality(held)

\* What the counters do satisfy between calls that return: allocate() takes
\* 4096 off available_memory and deallocate(f) puts it back.
C1_Witness ==
    /\ pc = "ready" /\ Len(hist) >= 2
    /\ Prev.op = "allocate" /\ Prev.ret # NoFrame
    /\ Last.op = "deallocate" /\ Last.frame = Prev.ret
    /\ available_memory = pre.avail + FRAME_SIZE

(***************************************************************************)
(* Properties of the mapper.                                               *)
(***************************************************************************)
Prev2 == hist[Len(hist) - 2]

\* The call that was made last has returned and the kernel runs on.
Returned == pc \in {"ready", "with", "returned", "switched"} /\ Len(hist) >= 1

\* Byte offsets into a page the address-level statements are checked at.
Offsets == {0, 123, FRAME_SIZE - 1}

\* Number of slots of a P1 table, from slot 0, whose pages are looked at.
WatchedSlots == 4

\* The pages other than `page` in the watched slots of the P1 table of `page`.
SameP1(page) ==
    { <<page[1], page[2], page[3], k>> : k \in (0..(WatchedSlots - 1)) \ {page[4]} }

\* C2: after map_to(page_of(v), f, F, alloc) with PRESENT in F on an unused
\* P1 slot, translate(v) is f.start_address() + v % 4096, and translate(v')
\* is what it was for every v' in another page of the same P1 table.
C2_MapToTranslates ==
    (Returned /\ Last.op = "map_to" /\ "PRESENT" \in Last.flags) =>
        /\ \A off \in Offsets :
              translate(mem, cr3, Last.page, off) = Last.frame * FRAME_SIZE + off
        /\ \A q \in SameP1(Last.page) :
              LET now == translate_page(mem, cr3, q)
                  before == translate_page(pre.mem, cr3, q)
              IN  \A off \in Offsets :
                      (IF now >= 0 THEN now * FRAME_SIZE + off ELSE now)
                          = (IF before >= 0 THEN before * FRAME_SIZE + off ELSE before)

\* C2's case: map_to has mapped PageA while PageB of the same P1 is mapped.
C2_Witness ==
    /\ Returned /\ Last.op = "map_to" /\ Last.page = PageA
    /\ translate_page(mem, cr3, PageA) = Last.frame
    /\ translate_page(pre.mem, cr3, PageA) = NoFrame
    /\ translate_page(mem, cr3, PageB) >= 0

\* C3: after map_to(p, f, F, alloc) followed by unmap(p, alloc),
\* translate(v) is None for every address v inside p.
C3_UnmapAfterMapTo ==
    (Returned /\ Len(hist) >= 2 /\ Last.op = "unmap" /\ Prev.op = "map_to"
        /\ Prev.page = Last.page) =>
        \A off \in Offsets : translate(mem, cr3, Last.page, off) = NoFrame

\* C3's case: unmap(p) has returned right after map_to(p, ..) mapped p.
C3_Witness ==
    /\ Returned /\ Len(hist) >= 2 /\ Last.op = "unmap" /\ Prev.op = "map_to"
    /\ Prev.page = Last.page
    /\ translate_page(pre.mem, cr3, Last.page) = Prev.frame
    /\ translate_page(mem, cr3, Last.page) = NoFrame

\* map_to(p, f, ..), unmap(p) and allocate() were the last three calls.
MapUnmapAllocate ==
    /\ Returned /\ Len(hist) >= 3
    /\ Last.op = "allocate" /\ Prev.op = "unmap" /\ Prev2.op = "map_to"
    /\ Prev2.page = Prev.page

\* C4 as stated: after map_to(p, f, F, alloc) followed by unmap(p, alloc) on
\* the bitmap allocator, the very next allocate() returns exactly f, whatever
\* other frames are free.
C4_NextAllocateIsFreed ==
    MapUnmapAllocate => Last.ret = Prev2.frame

\* C4 as the code has it: after map_to(p, f, ..) followed by unmap(p), the
\* very next allocate(), when it returns a frame, returns the lowest-numbered
\* frame whose bit is clear at that moment; that is f only when f's bit was
\* cleared and no frame below f is free.
C4_NextAllocateIsLowestFree ==
    (MapUnmapAllocate /\ Last.ret # NoFrame) =>
        /\ Last.ret \notin pre.bm
        /\ \A j \in 0..(Last.ret - 1) : j \in pre.bm
        /\ (Last.ret = Prev2.frame) <=>
              (Prev2.frame \notin pre.bm /\ \A j \in 0..(Prev2.frame - 1) : j \in pre.bm)

\* C4's case: the next allocate() returned a frame other than the freed one,
\* a lower frame being free.
C4_Witness ==
    /\ MapUnmapAllocate /\ Last.ret # NoFrame
    /\ Last.ret < Prev2.frame /\ Prev2.frame \notin pre.bm

\* C5: after with(inactive, temp_page, f) has returned, translate(v) of the
\* active address space is what it was before the call, for every v (the
\* temporary page included).
C5_WithKeepsActive ==
    (Returned /\ pc = "returned" /\ Last.op = "with_exit") =>
        \A q \in WatchedPages :
            translate_page(mem, cr3, q) = translate_page(snap, cr3, q)

\* C5's case that holds: with has returned after its closure mapped a page
\* in the inactive hierarchy, and the active translations are as before.
C5_Witness ==
    /\ Returned /\ pc = "returned" /\ Last.op = "with_exit" /\ Prev.op = "map_to"
    /\ \A q \in WatchedPages :
            translate_page(mem, cr3, q) = translate_page(snap, cr3, q)

\* C6: between mapper operations (map_to, map, identity_map, unmap of a
\* mapped page, with, switch), entry 510 of the PML4 in CR3 holds that same
\* frame with PRESENT | WRITABLE.
C6_RecursiveSlot ==
    pc \in {"ready", "returned", "switched"} =>
        Read(mem, cr3, RECURSIVE_INDEX) = Entry(cr3, {"PRESENT", "WRITABLE"})

\* C6's case that holds: the slot is right after the switch to the table
\* InactivePML4::new built.
C6_Witness ==
    /\ pc = "switched" /\ cr3 # PML4_FRAME
    /\ Read(mem, cr3, RECURSIVE_INDEX) = Entry(cr3, {"PRESENT", "WRITABLE"})

\* Frames the entries of the tables in frames fs refer to as next-level
\* tables, the entries with index `skip` left out.
Children(m, fs, skip) ==
    { m[x].addr : x \in { y \in DOMAIN m :
                            y[1] \in fs /\ y[2] # skip /\ HasNext(m[y]) } }

\* The P1 tables of the hierarchy rooted at PML4 frame r.
P1TablesOf(m, r) ==
    Children(m, Children(m, Children(m, {r}, RECURSIVE_INDEX), NoFrame), NoFrame)

\* Frames in use as a table of the hierarchy rooted at PML4 frame r.
TablesOf(m, r) ==
    LET p3 == Children(m, {r}, RECURSIVE_INDEX)
        p2 == Children(m, p3, NoFrame)
    IN  {r} \cup p3 \cup p2 \cup Children(m, p2, NoFrame)

\* Frames that a present leaf entry of a P1 table under r maps.
LeavesOf(m, r) ==
    { m[x].addr : x \in { y \in DOMAIN m :
                            y[1] \in P1TablesOf(m, r) /\ "PRESENT" \in m[y].flags } }

\* C8: after mm::init has switched to its tables and after any later map,
\* identity_map or unmap, no frame whose bit is clear in the bitmap is the
\* target of a present leaf entry or in use as a page table.
C8_FreeFramesUnused ==
    pc = "switched" =>
        \A number \in (TablesOf(mem, cr3) \cup LeavesOf(mem, cr3)) :
            number < FRAME_COUNT => number \in bit_map

\* C8's case that holds: a page mapped by map() after the switch, its frame
\* and its tables all marked used.
C8_Witness ==
    /\ pc = "switched" /\ Last.op = "map"
    /\ translate_page(mem, cr3, Last.page) >= 0
    /\ \A number \in (TablesOf(mem, cr3) \cup LeavesOf(mem, cr3)) :
            number < FRAME_COUNT => number \in bit_map

(***************************************************************************)
(* Locking of the memory entry points (mm.rs): the mutex operations each   *)
(* entry point performs, in program order, run by the boot CPU.  A guard   *)
(* bound by `let` is released when the function returns, a temporary guard *)
(* at the end of its statement.                                            *)
(***************************************************************************)
Acq(lock) == [op |-> "acquire", lock |-> lock]
Rel(lock) == [op |-> "release", lock |-> lock]

\* serial_println!: the serial port's mutex is taken for the write.
serial_println == <<Acq("QEMU_SERIAL"), Rel("QEMU_SERIAL")>>

RECURSIVE Repeat(_, _)
Repeat(ops, n) == IF n = 0 THEN <<>> ELSE ops \o Repeat(ops, n - 1)

\* BitmapFrameAllocator::init: one line logged per memory area, per ELF
\* section and for the kernel content.
AllocatorInitLocks(bi) ==
    Repeat(serial_println, Len(bi.memory_areas))
        \o Repeat(serial_println, Len(bi.elf_sections))
        \o serial_println

\* mm::init
MmInitLocks(bi) ==
    <<Acq("FRAME_ALLOCATOR")>> \o AllocatorInitLocks(bi) \o <<Rel("FRAME_ALLOCATOR")>>
        \o <<Acq("FRAME_ALLOCATOR")>>
        \o <<Acq("KERNEL_HEAP_ALLOCATOR"), Rel("KERNEL_HEAP_ALLOCATOR")>>
        \o serial_println \o serial_println \o serial_println
        \o <<Acq("KERNEL_HEAP_ALLOCATOR")>> \o serial_println
        \o <<Rel("KERNEL_HEAP_ALLOCATOR")>>
        \o <<Rel("FRAME_ALLOCATOR")>>

\* mm::translate_addr
TranslateAddrLocks == <<Acq("ACTIVE_PML4"), Rel("ACTIVE_PML4")>>

\* mm::identity_map
IdentityMapLocks ==
    <<Acq("FRAME_ALLOCATOR"), Acq("ACTIVE_PML4"),
      Rel("ACTIVE_PML4"), Rel("FRAME_ALLOCATOR")>>

LockOps ==
    CASE lpc = "init" -> MmInitLocks(boot)
      [] lpc = "translate_addr" -> TranslateAddrLocks
      [] lpc = "identity_map" -> IdentityMapLocks
      [] OTHER -> <<>>

Holds(lock) == \E i \in 1..Len(locks) : locks[i] = lock

LockIdle ==
    UNCHANGED <<build, boot, bit_map, total_memory, available_memory, mem, cr3,
                scratch, table, pml4_backup, held, hist, pre, snap, othervars>>

InitLocks ==
    /\ build = "release"
    /\ boot \in BootInputs
    /\ bit_map = {}
    /\ total_memory = 0
    /\ available_memory = 0
    /\ mem = <<>>
    /\ cr3 = NoFrame
    /\ scratch = <<>>
    /\ table = NoFrame
    /\ pml4_backup = NoFrame
    /\ pc = "fresh"
    /\ nops = 0
    /\ held = {}
    /\ hist = <<>>
    /\ pre = [mem |-> <<>>, bm |-> {}, avail |-> 0]
    /\ snap = <<>>
    /\ locks = <<>>
    /\ lpc = "idle"
    /\ li = 0
    /\ OtherReset

\* actually_kernel_start calls mm::init, once.
EnterMmInit ==
    /\ lpc = "idle" /\ pc = "fresh"
    /\ lpc' = "init" /\ li' = 1
    /\ UNCHANGED <<locks, pc, nops>>
    /\ LockIdle

\* A later call of translate_addr or identity_map (ACPI, I/O APIC set-up).
EnterCall(fn) ==
    /\ lpc = "idle" /\ pc = "ready" /\ nops < MaxCalls
    /\ lpc' = fn /\ li' = 1
    /\ nops' = nops + 1
    /\ UNCHANGED <<locks, pc>>
    /\ LockIdle

\* Mutex::lock: spins while the mutex is held.
Acquire ==
    /\ li >= 1 /\ li <= Len(LockOps)
    /\ LockOps[li].op = "acquire"
    /\ ~Holds(LockOps[li].lock)
    /\ locks' = Append(locks, LockOps[li].lock)
    /\ li' = li + 1
    /\ UNCHANGED <<lpc, pc, nops>>
    /\ LockIdle

\* The guard is dropped.
Release ==
    /\ li >= 1 /\ li <= Len(LockOps)
    /\ LockOps[li].op = "release"
    /\ locks' = SelectSeq(locks, LAMBDA l : l # LockOps[li].lock)
    /\ li' = li + 1
    /\ UNCHANGED <<lpc, pc, nops>>
    /\ LockIdle

\* The entry point returns.
ReturnCall ==
    /\ lpc # "idle" /\ li > Len(LockOps)
    /\ lpc' = "idle" /\ li' = 0
    /\ pc' = "ready"
    /\ UNCHANGED <<locks, nops>>
    /\ LockIdle

NextLocks ==
    \/ EnterMmInit
    \/ \E fn \in {"translate_addr", "identity_map"} : EnterCall(fn)
    \/ Acquire
    \/ Release
    \/ ReturnCall

SpecLocks == InitLocks /\ [][NextLocks]_vars

\* Lock a was taken before lock b and both are held.
HeldBefore(a, b) ==
    \E i, j \in 1..Len(locks) : i < j /\ locks[i] = a /\ locks[j] = b

\* C9: the lock order is always ACTIVE_PML4 then FRAME_ALLOCATOR; no path
\* acquires ACTIVE_PML4 while it holds FRAME_ALLOCATOR.
C9_LockOrder == ~HeldBefore("FRAME_ALLOCATOR", "ACTIVE_PML4")

MemoryLocks == {"FRAME_ALLOCATOR", "ACTIVE_PML4"}
SinkLocks == {"QEMU_SERIAL", "DMESG_RINGBUFFER", "FRAMEBUFFER"}

\* C10: outside the panic path, the serial-port, dmesg-ring and framebuffer
\* mutexes are never acquired while FRAME_ALLOCATOR or ACTIVE_PML4 is held.
C10_NoSinkUnderMemoryLock ==
    \A a \in MemoryLocks, b \in SinkLocks : ~HeldBefore(a, b)

(***************************************************************************)
(* State at rest of the memory and lock state machines, for the            *)
(* specifications that do not run them.                                    *)
(***************************************************************************)
MemoryOff ==
    /\ build \in {"debug", "release"}
    /\ boot = CHOOSE bi \in BootInputs : TRUE
    /\ bit_map = {}
    /\ total_memory = 0
    /\ available_memory = 0
    /\ mem = <<>>
    /\ cr3 = NoFrame
    /\ scratch = <<>>
    /\ table = NoFrame
    /\ pml4_backup = NoFrame
    /\ pc = "fresh"
    /\ nops = 0
    /\ held = {}
    /\ hist = <<>>
    /\ pre = [mem |-> <<>>, bm |-> {}, avail |-> 0]
    /\ snap = <<>>

LocksOff ==
    /\ locks = <<>>
    /\ lpc = "idle"
    /\ li = 0

(***************************************************************************)
(* The PIT driver (interrupts/pit8254.rs): programming of the 8254, the    *)
(* tick interrupt and pit_sleep.                                           *)
(***************************************************************************)
PIT_FREQUENCY == 1193182
TIMER_FREQUENCY == 1000
TIMER_COUNT == (PIT_FREQUENCY \div (TIMER_FREQUENCY * 2)) % 65536

PIT_COMMAND_PORT == 67
PIT_CHANNEL0_PORT == 64

U8 == 256
U16 == 65536

\* Most ticks in one behaviour, longest sleep asked for, and most calls of
\* set_pit_count.
MaxTicks == 5
MaxMillis == 3
MaxPrograms == 2

RECURSIVE Pow2(_)
Pow2(n) == IF n = 0 THEN 1 ELSE 2 * Pow2(n - 1)

\* Bit i of the byte x.
Bit(x, i) == (x \div Pow2(i)) % 2

\* a | b on u8
BitOr8(a, b) ==
    LET bit(i) == IF Bit(a, i) = 1 \/ Bit(b, i) = 1 THEN 1 ELSE 0
    IN  bit(0) + 2 * bit(1) + 4 * bit(2) + 8 * bit(3) + 16 * bit(4)
            + 32 * bit(5) + 64 * bit(6) + 128 * bit(7)

\* a << n on u8, n < 8: the bits shifted out are dropped.
Shl8(a, n) == (a * Pow2(n)) % U8

\* The command byte set_pit_count builds.  The literals are decimal: 0,
\* 010 = 10, 11 and 00 = 0.
PitCommand ==
    BitOr8(BitOr8(BitOr8(BitOr8(0, 0), Shl8(10, 1)), Shl8(11, 4)), Shl8(0, 5))

\* The three port writes of set_pit_count(count).
set_pit_count(count) ==
    << <<PIT_COMMAND_PORT, PitCommand>>,
       <<PIT_CHANNEL0_PORT, count % U8>>,
       <<PIT_CHANNEL0_PORT, (count \div U8) % U8>> >>

\* The count pit8254::init programs.
PitInitCount ==
    IF PIT_FREQUENCY % TIMER_FREQUENCY > TIMER_FREQUENCY \div 2
    THEN (TIMER_COUNT + 1) % U16
    ELSE TIMER_COUNT

PitCounts == {0, PitInitCount, PitInitCount + 1, U16 - 1}

\* pit_sleep as in pit.rs: a tick every 10 ms.
target_ticks_tenth(ms) == ms \div 10

\* let target_ticks = millis;
target_ticks(ms) == ms

\* The loop condition with start read anew on every evaluation.
sleep_waits_restarted(now, start, ms) == now - now <= target_ticks(ms)

\* The loop condition of pit_sleep: (TICKS.load(..) - start) <= target_ticks
sleep_waits(now, start, ms) == now - start <= target_ticks(ms)

InitPit ==
    /\ MemoryOff
    /\ LocksOff
    /\ MmReset
    /\ AuxReset
    /\ PitReset
    /\ PkReset

PitIdle == UNCHANGED <<memvars, lockvars, pkvars, mmvars, auxvars>>

\* set_pit_count(count)
SetPitCount(count) ==
    /\ Len(ports) < 3 * MaxPrograms
    /\ ports' = ports \o set_pit_count(count)
    /\ UNCHANGED <<ticks, prev_ticks, sleep_pc, sleep_start, sleep_millis, sleep_now>>
    /\ PitIdle

\* pit_handler: TICKS.fetch_add(1); hlt ends with the interrupt.
PitHandler ==
    /\ ticks < MaxTicks
    /\ prev_ticks' = ticks
    /\ ticks' = ticks + 1
    /\ sleep_pc' = IF sleep_pc = "halted" THEN "loop" ELSE sleep_pc
    /\ UNCHANGED <<sleep_start, sleep_millis, sleep_now, ports>>
    /\ PitIdle

\* pit_sleep(ms): let start = TICKS.load(..)
SleepEnter(ms) ==
    /\ sleep_pc = "idle"
    /\ sleep_millis' = ms
    /\ sleep_start' = ticks
    /\ prev_ticks' = ticks
    /\ sleep_pc' = "loop"
    /\ UNCHANGED <<ticks, sleep_now, ports>>
    /\ PitIdle

\* The TICKS.load(..) of the loop condition.
SleepLoad ==
    /\ sleep_pc = "loop"
    /\ sleep_now' = ticks
    /\ prev_ticks' = ticks
    /\ sleep_pc' = "test"
    /\ UNCHANGED <<ticks, sleep_start, sleep_millis, ports>>
    /\ PitIdle

\* while (TICKS.load(..) - start) <= target_ticks { halt(); }
SleepTest ==
    /\ sleep_pc = "test"
    /\ sleep_pc' = IF sleep_waits(sleep_now, sleep_start, sleep_millis)
                    THEN "halted" ELSE "returned"
    /\ UNCHANGED <<ticks, prev_ticks, sleep_start, sleep_millis, sleep_now, ports>>
    /\ PitIdle

\* The caller goes on after pit_sleep has returned.
SleepDone ==
    /\ sleep_pc = "returned"
    /\ sleep_pc' = "idle"
    /\ UNCHANGED <<ticks, prev_ticks, sleep_start, sleep_millis, sleep_now, ports>>
    /\ PitIdle

NextPit ==
    \/ \E count \in PitCounts : SetPitCount(count)
    \/ PitHandler
    \/ \E ms \in 0..MaxMillis : SleepEnter(ms)
    \/ SleepLoad
    \/ SleepTest
    \/ SleepDone

SpecPit == InitPit /\ [][NextPit]_vars

\* C11: TICKS never decreases from one observation to the next, and when
\* pit_sleep(ms) has returned, TICKS - start >= ms for the start it read on
\* entry.
C11_TicksMonotonicSleep ==
    /\ ticks >= prev_ticks
    /\ sleep_pc = "returned" => ticks - sleep_start >= sleep_millis

\* C11's case: pit_sleep(ms) with ms > 0 has returned after ticks went by.
C11_Witness ==
    /\ sleep_pc = "returned" /\ sleep_millis >= 2
    /\ ticks > sleep_start /\ ticks > prev_ticks

\* C20: the command byte written to port 0x43 selects channel 0 (bits 7..6
\* = 00), access lobyte/hibyte (bits 5..4 = 11), operating mode 2 or 3 (bits
\* 3..1 = 010 or 011) and binary counting (bit 0 = 0).
C20_PitCommandByte ==
    \A i \in 1..Len(ports) :
        ports[i][1] = PIT_COMMAND_PORT =>
            /\ (ports[i][2] \div 64) % 4 = 0
            /\ (ports[i][2] \div 16) % 4 = 3
            /\ (ports[i][2] \div 2) % 8 \in {2, 3}
            /\ ports[i][2] % 2 = 0

\* C20's case: set_pit_count has written its command byte and the count.
C20_Witness ==
    /\ Len(ports) >= 3
    /\ ports[1][1] = PIT_COMMAND_PORT
    /\ ports[2] = <<PIT_CHANNEL0_PORT, PitInitCount % U8>>

(***************************************************************************)
(* The prekernel (prekernel/arch/x86/main.rs): map_kernel_to_higher_half   *)
(* on the program headers of the embedded kernel.  The prekernel is 32-bit *)
(* code, its usize is a u32.  A virtual address is [p4, p3, lo]: bits      *)
(* 47..39, bits 38..30 and the low 30 bits.                                *)
(***************************************************************************)
GB == 1073741824
HUGE_2M == 2097152

\* Frame of the static KERNEL_CONTENT (2 MiB aligned by the linker script).
KERNEL_CONTENT_FRAME == 1024

\* Most program headers in the ELF.
MaxPhdrs == 2

VAddr(p4, p3, lo) == [p4 |-> p4, p3 |-> p3, lo |-> lo]

\* va + o, o < 1 GiB
VAdd(va, o) ==
    LET lo == va.lo + o
        p3 == va.p3 + lo \div GB
    IN  VAddr((va.p4 + p3 \div ENTRY_COUNT) % ENTRY_COUNT, p3 % ENTRY_COUNT, lo % GB)

\* The four table indices of a virtual address.
VIndices(va) ==
    <<va.p4, va.p3, va.lo \div HUGE_2M, (va.lo \div FRAME_SIZE) % ENTRY_COUNT>>

\* The physical address the tables m (PML4 in PML4_FRAME) give for va, or Fault.
PkTranslate(m, va) ==
    LET f == HwWalk(m, PML4_FRAME, VIndices(va))
    IN  IF f = Fault THEN Fault ELSE f * FRAME_SIZE + (va.lo % FRAME_SIZE)

Phdr(type, vaddr, memsz, content) ==
    [type |-> type, vaddr |-> vaddr, memsz |-> memsz, content |-> content]

\* 0xFFFF_FFFF_8000_0000 + lo
KernelVAddr(lo) == VAddr(ENTRY_COUNT - 1, RECURSIVE_INDEX, lo)

\* The program headers an ELF is made of: PT_LOAD headers at the kernel's
\* base (short, and longer than 2 MiB), 2 MiB above it, at a 4 KiB-aligned
\* address inside the first 2 MiB, one without content, and headers of
\* other types.
PhdrKinds ==
    { Phdr("LOAD", KernelVAddr(0), 12288, TRUE),
      Phdr("LOAD", KernelVAddr(0), HUGE_2M + FRAME_SIZE, TRUE),
      Phdr("LOAD", KernelVAddr(HUGE_2M), 8192, TRUE),
      Phdr("LOAD", KernelVAddr(73728), 8192, TRUE),
      Phdr("LOAD", KernelVAddr(2 * HUGE_2M), FRAME_SIZE, FALSE),
      Phdr("NOTE", VAddr(0, 0, 0), 0, TRUE),
      Phdr("DYNAMIC", VAddr(0, 0, 0), 0, TRUE) }

ElfInputs ==
    UNION { [1..n -> PhdrKinds] : n \in 1..MaxPhdrs }

\* Step 1: PML4[0], PDPT[0] and the loop over the 512 entries of PDT.
IdentityMapLow(m) ==
    [x \in DOMAIN m \cup {<<PML4_FRAME, 0>>, <<PDPT_FRAME, 0>>}
                    \cup {<<PDT_FRAME, i>> : i \in 0..(ENTRY_COUNT - 1)} |->
        IF x = <<PML4_FRAME, 0>> THEN Entry(PDPT_FRAME, TableFlags)
        ELSE IF x = <<PDPT_FRAME, 0>> THEN Entry(PDT_FRAME, TableFlags)
        ELSE IF x[1] = PDT_FRAME
             THEN Entry((HUGE_2M * x[2]) \div FRAME_SIZE, HugeFlags)
        ELSE m[x]]

\* The while loop of map_kernel_from_phdr: one HIGHER_HALF_PDT entry per
\* 2 MiB slice of [cur_addr, cur_addr + phdr_size).
HigherHalfEntries(m, first_index, cur_frame, slices) ==
    [x \in DOMAIN m \cup {<<HIGHER_HALF_PDT_FRAME, first_index + k>> :
                              k \in 0..(slices - 1)} |->
        IF x[1] = HIGHER_HALF_PDT_FRAME /\ x[2] >= first_index
                                        /\ x[2] < first_index + slices
        THEN Entry(cur_frame + (x[2] - first_index) * ENTRY_COUNT, HugeFlags)
        ELSE m[x]]

\* map_kernel_from_phdr(offset, phdr): [ok, mem, offset, staged]; ok is
\* FALSE when an index into HIGHER_HALF_PDT is out of bounds.
map_kernel_from_phdr(m, offset, phdr) ==
    IF ~phdr.content
    THEN [ok |-> TRUE, mem |-> m, offset |-> offset, staged |-> FALSE]
    ELSE
    LET phdr_size == align_up(phdr.memsz, HUGE_2M)
        higher_half_pdt_index == (phdr.vaddr.lo \div HUGE_2M) % ENTRY_COUNT
        slices == phdr_size \div HUGE_2M
        cur_frame == KERNEL_CONTENT_FRAME + offset \div FRAME_SIZE
    IN  IF higher_half_pdt_index + slices > ENTRY_COUNT
        THEN [ok |-> FALSE, mem |-> m, offset |-> offset, staged |-> FALSE]
        ELSE [ok |-> TRUE,
              mem |-> HigherHalfEntries(m, higher_half_pdt_index, cur_frame, slices),
              offset |-> offset + phdr_size,
              staged |-> TRUE]

InitPrekernel ==
    /\ MemoryOff
    /\ LocksOff
    /\ MmReset
    /\ AuxReset
    /\ PitReset
    /\ elf \in ElfInputs
    /\ pk_pc = "identity"
    /\ pk_next = 1
    /\ pk_offset = 0
    /\ pk_mem = <<>>
    /\ staged = <<>>

PkIdle == UNCHANGED <<memvars, lockvars, pitvars, mmvars, auxvars>>

\* Lines 55-62: identity map through PDT.
PkIdentity ==
    /\ pk_pc = "identity"
    /\ pk_mem' = IdentityMapLow(pk_mem)
    /\ pk_pc' = "first"
    /\ UNCHANGED <<elf, pk_next, pk_offset, staged>>
    /\ PkIdle

\* One program header: a LOAD header is staged and mapped, a DYNAMIC one
\* is a panic, any other is passed over.
PkHeader(to) ==
    /\ \E r \in {IF elf[pk_next].type = "LOAD"
                 THEN map_kernel_from_phdr(pk_mem, pk_offset, elf[pk_next])
                 ELSE [ok |-> elf[pk_next].type # "DYNAMIC", mem |-> pk_mem,
                       offset |-> pk_offset, staged |-> FALSE]} :
           /\ pk_mem' = r.mem
           /\ pk_offset' = r.offset
           /\ staged' = IF r.staged
                        THEN Append(staged,
                                    [phdr |-> pk_next,
                                     addr |-> KERNEL_CONTENT_FRAME * FRAME_SIZE
                                                  + pk_offset])
                        ELSE staged
           /\ pk_pc' = IF r.ok THEN to ELSE "panic"
    /\ pk_next' = pk_next + 1
    /\ UNCHANGED elf
    /\ PkIdle

\* Lines 108-115: the first program header.
PkFirst == pk_pc = "first" /\ PkHeader("link")

\* Lines 117-121: the PML4 and PDPT slots of the first header's vaddr.
PkLink ==
    /\ pk_pc = "link"
    /\ pk_mem' = Write(Write(pk_mem, PML4_FRAME, elf[1].vaddr.p4,
                             Entry(HIGHER_HALF_PDPT_FRAME, TableFlags)),
                       HIGHER_HALF_PDPT_FRAME, elf[1].vaddr.p3,
                       Entry(HIGHER_HALF_PDT_FRAME, TableFlags))
    /\ pk_pc' = "rest"
    /\ UNCHANGED <<elf, pk_next, pk_offset, staged>>
    /\ PkIdle

\* Lines 123-129: the remaining program headers.
PkRest == pk_pc = "rest" /\ pk_next <= Len(elf) /\ PkHeader("rest")

\* Line 131: the recursive slot; the function returns.
PkRecursive ==
    /\ pk_pc = "rest" /\ pk_next > Len(elf)
    /\ pk_mem' = Write(pk_mem, PML4_FRAME, RECURSIVE_INDEX,
                       Entry(PML4_FRAME, TableFlags))
    /\ pk_pc' = "done"
    /\ UNCHANGED <<elf, pk_next, pk_offset, staged>>
    /\ PkIdle

NextPrekernel ==
    \/ PkIdentity
    \/ PkFirst
    \/ PkLink
    \/ PkRest
    \/ PkRecursive

SpecPrekernel == InitPrekernel /\ [][NextPrekernel]_vars

\* Frames in [0, 2 GiB) the identity mapping is looked at.
IdentityProbes == {0, 1, 184, 511, 512, 1024, 262143, 262144, 400000, 524287}

\* The PDT entry the walk of the page of frame `number` ends in.
PdtEntryOf(m, number) ==
    LET idx == PageOf(number)
        e4 == Read(m, PML4_FRAME, idx[1])
        e3 == Read(m, e4.addr, idx[2])
    IN  Read(m, e3.addr, idx[3])

IdentityMapped(m, number) ==
    /\ HwWalk(m, PML4_FRAME, PageOf(number)) = number
    /\ HugeFlags \subseteq PdtEntryOf(m, number).flags

\* C12: after map_kernel_to_higher_half, every physical address in
\* [0, 2 GiB) is translated to itself through a present, writable 2 MiB page.
C12_IdentityLow2G ==
    pk_pc = "done" => \A number \in IdentityProbes : IdentityMapped(pk_mem, number)

\* C12's case that holds: the addresses below 1 GiB after the function has
\* returned for a kernel of one LOAD header.
C12_Witness ==
    /\ pk_pc = "done" /\ Len(elf) = 1 /\ Len(staged) = 1
    /\ \A number \in {n \in IdentityProbes : n * FRAME_SIZE < GB} :
            IdentityMapped(pk_mem, number)

\* Offsets into a header of size memsz that are looked at.
SegmentOffsets(memsz) == {o \in {0, 4660, memsz - 1} : o >= 0 /\ o < memsz}

\* C13: after the prekernel has staged the ELF, for every staged PT_LOAD
\* header and every offset o < memsz, the tables translate vaddr + o to the
\* address in the staging buffer where byte o of the header was put.
C13_SegmentsTranslate ==
    pk_pc = "done" =>
        \A k \in 1..Len(staged) :
            \A o \in SegmentOffsets(elf[staged[k].phdr].memsz) :
                PkTranslate(pk_mem, VAdd(elf[staged[k].phdr].vaddr, o))
                    = staged[k].addr + o

\* C13's case that holds: one PT_LOAD at 0xFFFF_FFFF_8000_0000 staged at
\* 0x0040_0000; 0xFFFF_FFFF_8000_1234 translates to 0x0040_1234.
C13_Witness ==
    /\ pk_pc = "done" /\ Len(elf) = 1 /\ Len(staged) = 1
    /\ elf[1].vaddr = KernelVAddr(0)
    /\ staged[1].addr = 4194304
    /\ PkTranslate(pk_mem, KernelVAddr(4660)) = 4198964

(***************************************************************************)
(* Further properties of the mapper and the allocator.                     *)
(***************************************************************************)
\* The P1 entry of `page` in the hierarchy the mapper works on, or Unused
\* when its P1 table cannot be reached.
P1EntryOf(m, c, page) ==
    LET pt == TableAt(m, c, <<pml4_index(page), pdpt_index(page), pdt_index(page)>>)
    IN  IF pt = Fault THEN Unused ELSE Read(m, pt, pt_index(page))

\* C14: when map_to(page, frame, flags, alloc) has succeeded, the P1 entry of
\* page holds frame with exactly the flags flags | PRESENT; no other flag,
\* WRITABLE in particular, is added.
C14_MapToFlagsExact ==
    (Returned /\ Last.op = "map_to") =>
        /\ P1EntryOf(mem, cr3, Last.page).addr = Last.frame
        /\ P1EntryOf(mem, cr3, Last.page).flags = Last.flags \cup {"PRESENT"}

\* C14's case: map_to(page, frame, {PRESENT}) has succeeded and the P1 entry
\* of page is present and holds frame.
C14_Witness ==
    /\ Returned /\ Last.op = "map_to" /\ Last.flags = {"PRESENT"}
    /\ P1EntryOf(mem, cr3, Last.page).addr = Last.frame
    /\ "PRESENT" \in P1EntryOf(mem, cr3, Last.page).flags

(***************************************************************************)
(* The allocator with a caller that breaks deallocate's safety contract:   *)
(* it frees frames it holds, the frame it freed last, and a frame that was *)
(* never handed out.                                                       *)
(***************************************************************************)
FreeInputs ==
    held \cup {FREE_FRAME}
         \cup (IF hist # <<>> /\ Last.op = "deallocate" THEN {Last.frame} ELSE {})

FreeDeallocate(frame) ==
    /\ pc = "ready" /\ nops < MaxCalls
    /\ DoDeallocate(frame)

NextFree ==
    \/ AllocInit
    \/ HeldAllocate
    \/ \E frame \in FreeInputs : FreeDeallocate(frame)

SpecFree == Init /\ [][NextFree]_vars

\* The frame of the call was freed by the call that returned last.
FreedLast(frame) == hist # <<>> /\ Last.op = "deallocate" /\ Last.frame = frame

\* C15: deallocate(f) on a frame whose bitmap bit is clear panics and changes
\* neither the bitmap nor available_memory; in particular deallocating the
\* same frame twice without an intervening allocate panics on the second call.
C15_DeallocateClearPanics ==
    [][\A frame \in FreeInputs :
          (FreeDeallocate(frame) /\ (~get(bit_map, frame) \/ FreedLast(frame)))
              => /\ pc' = "panic"
                 /\ bit_map' = bit_map
                 /\ available_memory' = available_memory]_vars

\* deallocate(f) returned twice in a row for the same frame, and the second
\* call added another FRAME_SIZE to available_memory.
C15_Witness ==
    /\ pc = "ready" /\ Len(hist) >= 2
    /\ Prev.op = "deallocate" /\ Last.op = "deallocate"
    /\ Prev.frame = Last.frame
    /\ get(pre.bm, Last.frame)
    /\ available_memory = pre.avail + FRAME_SIZE

\* The part of C15 the code does satisfy: a deallocate never returns on a
\* frame whose bit was clear.
C15_ClearBitPanics ==
    [][\A frame \in FreeInputs :
          (FreeDeallocate(frame) /\ ~get(bit_map, frame))
              => /\ pc' = "panic"
                 /\ bit_map' = bit_map
                 /\ available_memory' = available_memory]_vars

(***************************************************************************)
(* reserve_area on its own: calls on a fresh allocator, as init makes      *)
(* them, with byte addresses around frame boundaries and around the end of *)
(* the tracked window.                                                     *)
(***************************************************************************)
MaxReserves == 2

ReserveInputs ==
    {0, 1, FRAME_SIZE, FRAME_SIZE + 1, 2 * FRAME_SIZE, 3 * FRAME_SIZE - 1,
     ADDRESS_SPACE_SIZE - FRAME_SIZE, ADDRESS_SPACE_SIZE - 1,
     ADDRESS_SPACE_SIZE, ADDRESS_SPACE_SIZE + FRAME_SIZE}

\* self.reserve_area(start, end)
Reserve(start, end) ==
    /\ pc = "fresh" /\ nops < MaxReserves
    /\ \E r \in {reserve_area(bit_map, start, end)} :
           Commit([Cur EXCEPT !.bm = r.bm,
                              !.status = IF r.ok THEN "ok" ELSE "panic"],
                  Call("reserve_area", <<start, end>>, NoFrame, {}, r.ret), pc)
    /\ nops' = nops + 1
    /\ UNCHANGED <<total_memory, cr3, table, pml4_backup, snap, held>>

NextReserve == \E start, end \in ReserveInputs : Reserve(start, end)

SpecReserve == Init /\ [][NextReserve]_vars

\* The frames of the tracked window that intersect [start, end).
Intersecting(start, end) ==
    {number \in 0..(FRAME_COUNT - 1) :
        number * FRAME_SIZE < end /\ start < (number + 1) * FRAME_SIZE}

ReserveReturned == pc = "fresh" /\ hist # <<>> /\ Last.op = "reserve_area"

\* C16: reserve_area(start, end) with start <= end sets the bit of every frame
\* that intersects [start, end) inside the tracked window and of no other
\* frame, and returns 4096 x the number of frames intersecting that range.
C16_ReserveAreaBytes ==
    ReserveReturned =>
        /\ bit_map = pre.bm \cup Intersecting(Last.page[1], Last.page[2])
        /\ Last.ret = FRAME_SIZE * Cardinality(Intersecting(Last.page[1], Last.page[2]))

\* A call on a non-empty range wholly inside the window: the bits are those
\* of the intersecting frames, the value returned is one more than their bytes.
C16_Witness ==
    /\ ReserveReturned
    /\ Last.page[1] < Last.page[2] /\ Last.page[2] < ADDRESS_SPACE_SIZE - FRAME_SIZE
    /\ bit_map = pre.bm \cup Intersecting(Last.page[1], Last.page[2])
    /\ Last.ret = FRAME_SIZE * Cardinality(Intersecting(Last.page[1], Last.page[2])) + 1

\* What reserve_area does satisfy: on a non-empty range the bits set are those
\* of the intersecting frames, and the value returned is the length of the
\* frame-aligned range plus one, or what is left of the window from start.
C16_ReserveAreaBits ==
    (ReserveReturned /\ Last.page[1] < Last.page[2]) =>
        /\ bit_map = pre.bm \cup Intersecting(Last.page[1], Last.page[2])
        /\ Last.ret \in
              {0,
               FRAME_SIZE * Cardinality(Intersecting(Last.page[1], Last.page[2])),
               align_up(Last.page[2], FRAME_SIZE)
                   - align_down(Last.page[1], FRAME_SIZE) + 1}

(***************************************************************************)
(* allocate() on its own, from allocator states init can leave behind:     *)
(* bitmaps with a reserved prefix, with holes in it and with no clear bit, *)
(* and counters around one frame.                                          *)
(***************************************************************************)
FirstFitBitmaps ==
    { {}, 0..62, 0..63, (0..70) \ {5}, (0..70) \ {5, 64}, 0..(FRAME_COUNT - 1) }

FirstFitAvailable == {0, FRAME_SIZE - 1, FRAME_SIZE, 2 * FRAME_SIZE, 4 * FRAME_SIZE}

InitFirstFit ==
    /\ build \in {"debug", "release"}
    /\ boot \in BootInputs
    /\ bit_map \in FirstFitBitmaps
    /\ available_memory \in FirstFitAvailable
    /\ total_memory = ADDRESS_SPACE_SIZE
    /\ mem = PrekernelTables(boot)
    /\ cr3 = PML4_FRAME
    /\ scratch = <<>>
    /\ table = NoFrame
    /\ pml4_backup = NoFrame
    /\ pc = "ready"
    /\ nops = 0
    /\ held = {}
    /\ hist = <<>>
    /\ pre = [mem |-> mem, bm |-> bit_map, avail |-> available_memory]
    /\ snap = mem
    /\ locks = <<>>
    /\ lpc = "idle"
    /\ li = 0
    /\ OtherReset

NextFirstFit == HeldAllocate

SpecFirstFit == InitFirstFit /\ [][NextFirstFit]_vars

AllocateReturned == pc = "ready" /\ hist # <<>> /\ Last.op = "allocate"

\* C17: allocate() is linear first-fit: whenever it returns Some(f), f is the
\* lowest-numbered frame whose bit was clear before the call, f's bit is set
\* afterwards and no other bit changes; it returns None when
\* available_memory < 4096.
C17_AllocateFirstFit ==
    AllocateReturned =>
        /\ Last.ret # NoFrame =>
              /\ Last.ret \notin pre.bm
              /\ \A j \in 0..(Last.ret - 1) : j \in pre.bm
              /\ bit_map = pre.bm \cup {Last.ret}
        /\ pre.avail < FRAME_SIZE => Last.ret = NoFrame

\* Both cases: a frame found past a hole-free prefix of two words, and None
\* on a counter below one frame while the bitmap has clear bits.
C17_Witness ==
    /\ AllocateReturned /\ Len(hist) >= 2
    /\ Prev.op = "allocate" /\ Prev.ret = 64
    /\ Last.ret = NoFrame
    /\ pre.avail < FRAME_SIZE
    /\ FirstClear(pre.bm) = 71

(***************************************************************************)
(* mm::init statement by statement: the three ranges mapped inside with(), *)
(* the switch, the unmapping of the guard page and the kernel heap.  The   *)
(* heap is HeapPages pages long, where the kernel's is 16 MiB.             *)
(***************************************************************************)
HeapPages == 3

\* The page n pages after `page`.
PageAdd(page, n) ==
    LET total == (page[2] * ENTRY_COUNT + page[3]) * ENTRY_COUNT + page[4] + n
    IN  << page[1],
           (total \div (ENTRY_COUNT * ENTRY_COUNT)) % ENTRY_COUNT,
           (total \div ENTRY_COUNT) % ENTRY_COUNT,
           total % ENTRY_COUNT >>

\* a < b on page numbers.
PageLess(a, b) ==
    \E i \in 1..4 : a[i] < b[i] /\ \A j \in 1..(i - 1) : a[j] = b[j]

\* core::cmp::max on addresses of page starts.
PageMax(a, b) == IF PageLess(a, b) THEN b ELSE a

\* align_up(size, PAGE_SIZE), in pages.
PagesOf(size) == align_up(size, FRAME_SIZE) \div FRAME_SIZE

\* The loop of map_range from iteration n on: map_to on page n and frame n
\* of the range, while n * PAGE_SIZE <= size.
RECURSIVE map_range_from(_, _, _, _, _, _, _)
map_range_from(st, c, virt_start, phys_start, pages, flags, n) ==
    IF st.status # "ok" \/ n > pages
    THEN st
    ELSE map_range_from(map_to(st, c, PageAdd(virt_start, n), phys_start + n,
                               flags, "bitmap"),
                        c, virt_start, phys_start, pages, flags, n + 1)

\* map_range on a page-aligned virt_start (a page) and a phys_start in bytes.
map_range(st, c, virt_start, phys_start, size, flags) ==
    IF phys_start % FRAME_SIZE # 0
    THEN [st EXCEPT !.status = "panic"]
    ELSE map_range_from(st, c, virt_start, phys_start \div FRAME_SIZE,
                        PagesOf(size), flags, 0)

\* The loop of identity_map_range from iteration n on.
RECURSIVE identity_map_range_from(_, _, _, _, _, _)
identity_map_range_from(st, c, phys_start, pages, flags, n) ==
    IF st.status # "ok" \/ n > pages
    THEN st
    ELSE identity_map_range_from(identity_map(st, c, phys_start + n, flags, "bitmap"),
                                 c, phys_start, pages, flags, n + 1)

\* identity_map_range, phys_start in bytes.
identity_map_range(st, c, phys_start, size, flags) ==
    IF phys_start % FRAME_SIZE # 0
    THEN [st EXCEPT !.status = "panic"]
    ELSE identity_map_range_from(st, c, phys_start \div FRAME_SIZE,
                                 PagesOf(size), flags, 0)

\* The loop of map_virtual_range from iteration n on: map() on page n of the
\* range, while n * PAGE_SIZE <= size.
RECURSIVE map_virtual_range_from(_, _, _, _, _, _)
map_virtual_range_from(st, c, virt_start, pages, flags, n) ==
    IF st.status # "ok" \/ n > pages
    THEN st
    ELSE map_virtual_range_from(map(st, c, PageAdd(virt_start, n), flags, "bitmap"),
                                c, virt_start, pages, flags, n + 1)

\* map_virtual_range on a page-aligned virt_start.
map_virtual_range(st, c, virt_start, size, flags) ==
    map_virtual_range_from(st, c, virt_start, PagesOf(size), flags, 0)

KERNEL_HEAP_SIZE == HeapPages * FRAME_SIZE

\* kernel_start_virt_addr: where the prekernel mapped the kernel image.
KernelVirtPage == <<ENTRY_COUNT - 1, RECURSIVE_INDEX, 0, 0>>

kernel_content_size(bi) == bi.phys_end_addr - bi.phys_start_addr + 1

\* The pages of the kernel image [virt_start, virt_start + kernel_content_size).
KernelImagePages(bi) ==
    {PageAdd(KernelVirtPage, n) : n \in 0..(PagesOf(kernel_content_size(bi)) - 1)}

\* The values the three range calls return.
kernel_end(bi) == PageAdd(KernelVirtPage, PagesOf(kernel_content_size(bi)))

boot_info_end(bi) ==
    PageOf(bi.start_address \div FRAME_SIZE
           + PagesOf(bi.end_address - bi.start_address))

framebuffer_end(bi) ==
    PageOf(bi.fb_address \div FRAME_SIZE + PagesOf(bi.fb_size))

\* Boot information with framebuffers of one and of two pages.
MmBootInputs ==
    BootInputs \cup {[bi EXCEPT !.fb_size = FRAME_SIZE] : bi \in BootInputs}

\* The machine as the prekernel hands it to mm::init.
InitMmEntry ==
    /\ build \in {"debug", "release"}
    /\ boot \in MmBootInputs
    /\ bit_map = {}
    /\ total_memory = 0
    /\ available_memory = 0
    /\ mem = PrekernelTables(boot)
    /\ cr3 = PML4_FRAME
    /\ scratch = <<>>
    /\ table = NoFrame
    /\ pml4_backup = NoFrame
    /\ pc = "fresh"
    /\ nops = 0
    /\ held = {}
    /\ hist = <<>>
    /\ pre = [mem |-> mem, bm |-> {}, avail |-> 0]
    /\ snap = mem
    /\ locks = <<>>
    /\ lpc = "idle"
    /\ li = 0
    /\ PitReset
    /\ PkReset
    /\ mm_step = "kernel"
    /\ guard \in KernelImagePages(boot)
    /\ heap_addr = PageOf(0)
    /\ heap = <<>>

InitMm == InitMmEntry /\ AuxReset

\* What a statement of mm::init leaves alone besides what CommitMem sets.
MmIdle ==
    UNCHANGED <<build, boot, total_memory, cr3, table, pml4_backup, nops, held,
                snap, lockvars, pitvars, pkvars, auxvars, guard>>

\* let kernel_end = map_range(kernel_start_virt_addr, ..)
InitMapKernel ==
    /\ pc = "with" /\ mm_step = "kernel"
    /\ CommitMem(map_range(Cur, cr3, KernelVirtPage, boot.phys_start_addr,
                           kernel_content_size(boot), {"PRESENT"}),
                 Call("map_range", KernelVirtPage, KernelFrame, {"PRESENT"}, 0),
                 "with")
    /\ mm_step' = "boot_info"
    /\ UNCHANGED <<heap_addr, heap>>
    /\ MmIdle

\* let boot_info_end = identity_map_range(boot_info_start_addr, ..)
InitMapBootInfo ==
    /\ pc = "with" /\ mm_step = "boot_info"
    /\ CommitMem(identity_map_range(Cur, cr3, boot.start_address,
                                    boot.end_address - boot.start_address,
                                    {"PRESENT", "NO_EXECUTE"}),
                 Call("identity_map_range", <<>>, boot.start_address \div FRAME_SIZE,
                      {"PRESENT", "NO_EXECUTE"}, 0),
                 "with")
    /\ mm_step' = "framebuffer"
    /\ UNCHANGED <<heap_addr, heap>>
    /\ MmIdle

\* let framebuffer_end = identity_map_range(framebuffer_address, ..), and
\* heap_addr = max(kernel_end, max(boot_info_end, framebuffer_end))
InitMapFramebuffer ==
    /\ pc = "with" /\ mm_step = "framebuffer"
    /\ CommitMem(identity_map_range(Cur, cr3, boot.fb_address, boot.fb_size,
                                    {"PRESENT", "NO_EXECUTE"}),
                 Call("identity_map_range", <<>>, boot.fb_address \div FRAME_SIZE,
                      {"PRESENT", "NO_EXECUTE"}, 0),
                 "with")
    /\ mm_step' = "exit"
    /\ heap_addr' = PageMax(kernel_end(boot),
                            PageMax(boot_info_end(boot), framebuffer_end(boot)))
    /\ UNCHANGED heap
    /\ MmIdle

\* The closure of with() has returned.
InitWithExit == mm_step = "exit" /\ WithExit

\* active_pml4.switch(new_table)
InitSwitch == mm_step = "exit" /\ Switch

\* active_pml4.unmap(Page::containing_address(addr_of!(STACKOVERFLOW_GUARD)), ..)
InitUnmapGuard ==
    /\ pc = "switched" /\ mm_step = "exit"
    /\ CommitMem(unmap(Cur, cr3, guard, "bitmap", build),
                 Call("unmap", guard, NoFrame, {}, 0), "switched")
    /\ mm_step' = "heap"
    /\ UNCHANGED <<heap_addr, heap>>
    /\ MmIdle

\* map_virtual_range(heap_addr, KERNEL_HEAP_SIZE, ..) and
\* KERNEL_HEAP_ALLOCATOR.lock().init(heap_addr, KERNEL_HEAP_SIZE): the rest
\* of mm::init
InitHeap ==
    /\ pc = "switched" /\ mm_step = "heap"
    /\ \E st \in {map_virtual_range(Cur, cr3, heap_addr, KERNEL_HEAP_SIZE, {})} :
           /\ CommitMem(st, Call("map_virtual_range", heap_addr, NoFrame, {}, 0),
                        "switched")
           /\ heap' = IF st.status = "ok" THEN <<heap_addr, HeapPages>> ELSE heap
    /\ mm_step' = "done"
    /\ UNCHANGED heap_addr
    /\ MmIdle

NextMm ==
    \/ MmSetup
    \/ WithEnter
    \/ InitMapKernel
    \/ InitMapBootInfo
    \/ InitMapFramebuffer
    \/ InitWithExit
    \/ InitSwitch
    \/ InitUnmapGuard
    \/ InitHeap

SpecMm == InitMm /\ [][NextMm]_vars

\* mm::init has executed its last statements: the heap mapping and hand-over.
MmEnded == mm_step = "done"

\* mm::init has returned.
MmReturned == MmEnded /\ pc = "switched"

HeapRange == {PageAdd(heap_addr, n) : n \in 0..(HeapPages - 1)}

\* C18: mm::init maps for the kernel heap exactly the pages of
\* [heap_addr, heap_addr + KERNEL_HEAP_SIZE), none outside that range, each
\* backed by a distinct frame obtained from allocate() during that step, and
\* hands heap_addr with that size to the heap allocator.
C18_HeapMappedFresh ==
    MmEnded =>
        /\ MmReturned
        /\ heap = <<heap_addr, HeapPages>>
        /\ \A page \in HeapRange :
              /\ translate_page(mem, cr3, page) = P1EntryOf(mem, cr3, page).addr
              /\ P1EntryOf(mem, cr3, page).addr \notin pre.bm
              /\ P1EntryOf(mem, cr3, page).addr \in bit_map
        /\ \A p, q \in HeapRange :
              p # q => P1EntryOf(mem, cr3, p).addr # P1EntryOf(mem, cr3, q).addr
        /\ translate_page(mem, cr3, PageAdd(heap_addr, HeapPages))
              = translate_page(pre.mem, cr3, PageAdd(heap_addr, HeapPages))

\* The heap statement has run and panicked: heap_addr is the end of the
\* kernel image, whose page map_range had already mapped to the frame after
\* the kernel buffer; the heap allocator was given nothing.
C18_Witness ==
    /\ MmEnded /\ pc = "panic"
    /\ heap_addr = kernel_end(boot)
    /\ translate_page(mem, cr3, heap_addr) = KernelFrame + PagesOf(kernel_content_size(boot))
    /\ heap = <<>>

\* Every page of the kernel image but the guard page translates to
\* phys_start + the same offset, and the guard page to nothing.
GuardOnlyUnmapped ==
    /\ translate_page(mem, cr3, guard) = NoFrame
    /\ \A n \in 0..(PagesOf(kernel_content_size(boot)) - 1) :
          PageAdd(KernelVirtPage, n) # guard =>
              \A offset \in {0, FRAME_SIZE - 1} :
                  translate(mem, cr3, PageAdd(KernelVirtPage, n), offset)
                      = boot.phys_start_addr + n * FRAME_SIZE + offset

C19_GuardUnmappedAfterUnmap ==
    mm_step \in {"heap", "done"} => GuardOnlyUnmapped

(***************************************************************************)
(* Page::containing_address and Mapper::translate on 64-bit addresses.  An *)
(* address is its bits 63..48 (top), its PML4 and PDPT digits and its low  *)
(* 30 bits.                                                                *)
(***************************************************************************)
TOP_ONES == 65535
HALF_P4 == 256
MaxTranslates == 2

Addr(top, p4, p3, lo) == [top |-> top, p4 |-> p4, p3 |-> p3, lo |-> lo]

\* The address as a tuple ordered like the number it stands for.
AddrKey(a) == <<a.top, a.p4, a.p3, a.lo>>

\* a <= b on addresses.
AddrLeq(a, b) ==
    \/ AddrKey(a) = AddrKey(b)
    \/ \E i \in 1..4 : /\ AddrKey(a)[i] < AddrKey(b)[i]
                       /\ \A j \in 1..(i - 1) : AddrKey(a)[j] = AddrKey(b)[j]

\* 0x0000_8000_0000_0000 and 0xffff_8000_0000_0000
LOWER_HALF_END == Addr(0, HALF_P4, 0, 0)
HIGHER_HALF_START == Addr(TOP_ONES, HALF_P4, 0, 0)

\* A canonical address: bits 63..47 all equal.
Canonical(a) ==
    \/ a.top = 0 /\ a.p4 < HALF_P4
    \/ a.top = TOP_ONES /\ a.p4 >= HALF_P4

\* The assert of Page::containing_address.
containing_address_ok(a) ==
    AddrLeq(a, LOWER_HALF_END) \/ AddrLeq(HIGHER_HALF_START, a)

\* Page::containing_address where the assert holds: the page addr / PAGE_SIZE,
\* as its four digits.
containing_address(a) ==
    <<a.p4, a.p3, a.lo \div HUGE_2M, (a.lo \div FRAME_SIZE) % ENTRY_COUNT>>

\* Mapper::translate(virt_addr); Panic is the failed assert.
translate_addr(m, c, a) ==
    IF ~containing_address_ok(a)
    THEN Panic
    ELSE translate(m, c, containing_address(a), a.lo % FRAME_SIZE)

\* Addresses at both ends of the two halves and of the hole between them.
CanonInputs ==
    { Addr(0, 0, 0, 4104),
      Addr(0, HALF_P4 - 1, ENTRY_COUNT - 1, GB - 1),
      Addr(0, HALF_P4, 0, 0),
      Addr(0, HALF_P4, 0, 1),
      Addr(1, 0, 0, 0),
      Addr(TOP_ONES, HALF_P4 - 1, ENTRY_COUNT - 1, GB - 1),
      Addr(TOP_ONES, HALF_P4, 0, 0),
      Addr(TOP_ONES, ENTRY_COUNT - 1, RECURSIVE_INDEX, 291) }

\* active_pml4.translate(addr) on the tables the prekernel left
CanonTranslate(a) ==
    /\ pc = "fresh" /\ nops < MaxTranslates
    /\ \E r \in {translate_addr(mem, cr3, a)} :
           /\ hist' = Remember(Call("translate", a, NoFrame, {}, r))
           /\ pc' = IF r = Panic THEN "panic" ELSE pc
    /\ nops' = nops + 1
    /\ UNCHANGED <<build, boot, bit_map, total_memory, available_memory, mem,
                   cr3, scratch, table, pml4_backup, held, pre, snap,
                   lockvars, othervars>>

NextCanon == \E a \in CanonInputs : CanonTranslate(a)

SpecCanon == Init /\ [][NextCanon]_vars

TranslateCalled == hist # <<>> /\ Last.op = "translate"

\* C21: Page::containing_address(addr) succeeds only for canonical addresses
\* (addr < 2^47 or addr >= 0xFFFF_8000_0000_0000) and panics for every other
\* addr, so translate of any non-canonical address ends in an assertion
\* failure.
C21_NonCanonicalPanics ==
    TranslateCalled => (Last.ret = Panic <=> ~Canonical(Last.page))

\* translate(0x0000_8000_0000_0000), an address that is not canonical, has
\* returned None.
C21_Witness ==
    /\ TranslateCalled /\ pc = "fresh"
    /\ Last.page = LOWER_HALF_END /\ ~Canonical(Last.page)
    /\ Last.ret = NoFrame

\* What the assert does give: no canonical address panics, and of the
\* addresses that are not canonical only 0x0000_8000_0000_0000 gets through.
C21_AllButOnePanic ==
    TranslateCalled =>
        (Last.ret = Panic <=> (~Canonical(Last.page) /\ Last.page # LOWER_HALF_END))

(***************************************************************************)
(* ActivePML4::with statement by statement, with a closure f that makes    *)
(* map_to calls.  Every statement taken is appended to `events`.           *)
(***************************************************************************)
\* Most map_to calls the closure makes.
MaxClosureCalls == 2

\* The statements of with in program order, without the switch of two
\* statements that follow the closure.
WithAfterSwapped(step) ==
    CASE step = "map_scratch" -> "set_510_inactive"
      [] step = "set_510_inactive" -> "flush_all_1"
      [] step = "flush_all_1" -> "f"
      [] step = "f" -> "flush_all_2"
      [] step = "flush_all_2" -> "set_510_backup"
      [] step = "set_510_backup" -> "unmap_scratch"
      [] step = "unmap_scratch" -> "done"

\* The statement of with that follows `step`.
WithAfter(step) ==
    CASE step = "map_scratch" -> "set_510_inactive"
      [] step = "set_510_inactive" -> "flush_all_1"
      [] step = "flush_all_1" -> "f"
      [] step = "f" -> "set_510_backup"
      [] step = "set_510_backup" -> "flush_all_2"
      [] step = "flush_all_2" -> "unmap_scratch"
      [] step = "unmap_scratch" -> "done"

\* The event a statement leaves in the log.
EventOf(step) ==
    IF step \in {"flush_all_1", "flush_all_2"} THEN "flush_tlb_all" ELSE step

WithIdle ==
    UNCHANGED <<build, boot, total_memory, cr3, table, nops, held, snap,
                lockvars, pitvars, pkvars, mmvars, madtvars, acpivars>>

\* One statement of with that ends in execution state st.
WithStep(step, st) ==
    /\ with_pc = step
    /\ CommitMem(st, Call(step, <<>>, table, {}, 0),
                 IF WithAfter(step) = "done" THEN "returned" ELSE "with")
    /\ with_pc' = WithAfter(step)
    /\ events' = Append(events, EventOf(step))
    /\ WithIdle

\* let pml4_backup = ..; let p4_table = temporary_page.map_table_frame(..)
WithMapScratch ==
    /\ pc = "ready" /\ with_pc = "off" /\ scratch # <<>> /\ table # NoFrame
    /\ CommitMem(temp_map(Cur, cr3, cr3), Call("map_scratch", <<>>, table, {}, 0),
                 "with")
    /\ with_pc' = WithAfter("map_scratch")
    /\ events' = Append(events, "map_scratch")
    /\ pml4_backup' = cr3
    /\ WithIdle

\* self.pml4[510].set(table.pml4_frame, PRESENT | WRITABLE)
WithInstall ==
    /\ pc = "with"
    /\ WithStep("set_510_inactive",
                P4Store(Cur, cr3, RECURSIVE_INDEX,
                        Entry(table, {"PRESENT", "WRITABLE"})))
    /\ UNCHANGED pml4_backup

\* flush_tlb_all(), before and after the closure
WithFlush(step) ==
    /\ pc = "with" /\ step \in {"flush_all_1", "flush_all_2"}
    /\ WithStep(step, Cur)
    /\ UNCHANGED pml4_backup

\* A map_to call of the closure f(&mut self.mapper)
WithClosureMapTo(page, frame, flags) ==
    /\ pc = "with" /\ with_pc = "f"
    /\ Len(SelectSeq(events, LAMBDA e : e = "f_map_to")) < MaxClosureCalls
    /\ CommitMem(map_to(Cur, cr3, page, frame, flags, "bitmap"),
                 Call("map_to", page, frame, flags, 0), "with")
    /\ events' = Append(events, "f_map_to")
    /\ UNCHANGED <<with_pc, pml4_backup>>
    /\ WithIdle

\* The closure returns.
WithClosureReturn ==
    /\ pc = "with"
    /\ WithStep("f", Cur)
    /\ UNCHANGED pml4_backup

\* p4_table[510].set(pml4_backup, PRESENT | WRITABLE)
WithRestore ==
    /\ pc = "with"
    /\ WithStep("set_510_backup",
                TempStore(Cur, cr3, RECURSIVE_INDEX,
                          Entry(pml4_backup, {"PRESENT", "WRITABLE"})))
    /\ UNCHANGED pml4_backup

\* temporary_page.unmap(self)
WithUnmapScratch ==
    /\ pc = "with"
    /\ WithStep("unmap_scratch", temp_unmap(Cur, cr3, build))
    /\ pml4_backup' = NoFrame

NextWith ==
    \/ MmSetup
    \/ WithMapScratch
    \/ WithInstall
    \/ \E step \in {"flush_all_1", "flush_all_2"} : WithFlush(step)
    \/ \E page \in MapToPages, frame \in MapFrames, flags \in MapFlags :
            WithClosureMapTo(page, frame, flags)
    \/ WithClosureReturn
    \/ WithRestore
    \/ WithUnmapScratch

SpecWith == Init /\ [][NextWith]_vars

\* The log without the calls the closure makes.
OwnEvents == SelectSeq(events, LAMBDA e : e # "f_map_to")

\* The positions of the log that hold event e.
PositionsOf(e) == {i \in 1..Len(events) : events[i] = e}

WithOrder ==
    <<"map_scratch", "set_510_inactive", "flush_tlb_all", "f",
      "set_510_backup", "flush_tlb_all", "unmap_scratch">>

\* C22: ActivePML4::with performs its steps in this order: map the scratch
\* page; write the inactive PML4's frame into slot 510 of the active PML4;
\* full TLB flush; run f; write the original (CR3) frame back into slot 510;
\* full TLB flush; unmap the scratch page.  There are exactly two full
\* flushes, each one after the corresponding slot-510 write and none between
\* f's start and the restore.
C22_WithStepOrder ==
    /\ OwnEvents = SubSeq(WithOrder, 1, Len(OwnEvents))
    /\ with_pc = "done" =>
          /\ OwnEvents = WithOrder
          /\ Cardinality(PositionsOf("flush_tlb_all")) = 2
    /\ \A i \in PositionsOf("flush_tlb_all") :
          /\ i > 1
          /\ events[i - 1] \in {"set_510_inactive", "set_510_backup"}
    /\ \A i \in PositionsOf("f_map_to") : i > 3 /\ events[3] = "flush_tlb_all"
    /\ \A i \in PositionsOf("f_map_to"), j \in PositionsOf("set_510_backup") :
          \A k \in i..j : events[k] # "flush_tlb_all"
    /\ (pc = "with" /\ with_pc \in {"flush_all_1", "f", "set_510_backup"}) =>
          Read(mem, cr3, RECURSIVE_INDEX).addr = table
    /\ (pc \in {"with", "returned"}
            /\ with_pc \in {"flush_all_2", "unmap_scratch", "done"}) =>
          Read(mem, cr3, RECURSIVE_INDEX).addr = cr3

\* with has returned after a closure that made two map_to calls.
C22_Witness ==
    /\ with_pc = "done" /\ pc = "returned"
    /\ Cardinality(PositionsOf("f_map_to")) = 2
    /\ Cardinality(PositionsOf("flush_tlb_all")) = 2
    /\ events[Len(events)] = "unmap_scratch"

(***************************************************************************)
(* parse_apic_sdt (acpi/apic.rs): the walk over the interrupt controller   *)
(* structures of a MADT.  Offsets are bytes from the start of the table;   *)
(* the byte after the longest body is the memory that follows the table.   *)
(***************************************************************************)
\* offset of RawAPICSDT.interrupt_control_structure
MADT_BODY_OFFSET == 44
\* The length of a table that ends with the common header (the fields of
\* RawAPICSDT up to _creator_revision).
SDT_HEADER_SIZE == 36
\* Most bytes of records in a MADT.
MaxBody == 4
\* Most records kept in the vector; a walk over MaxBody bytes that advances
\* pushes fewer.
MaxRecords == 3

\* The byte values a MADT is made of: they serve as record types
\* (ICS_LOCAL_APIC, ICS_INTERRUPT_SOURCE_OVERRIDE, an unknown type) and as
\* record lengths.
ByteVals == {0, 2, 3}

BodyOffsets == MADT_BODY_OFFSET..(MADT_BODY_OFFSET + MaxBody)

InitMadt ==
    /\ MemoryOff
    /\ LocksOff
    /\ PitReset
    /\ PkReset
    /\ MmReset
    /\ WithReset
    /\ AcpiReset
    /\ madt_bytes \in [BodyOffsets -> ByteVals]
    /\ madt_length \in {SDT_HEADER_SIZE} \cup (MADT_BODY_OFFSET..(MADT_BODY_OFFSET + MaxBody))
    /\ madt_cur = MADT_BODY_OFFSET
    /\ madt_out = <<>>
    /\ madt_pc = "walk"

MadtIdle == UNCHANGED <<memvars, lockvars, pitvars, pkvars, mmvars, withvars,
                        acpivars, madt_bytes, madt_length>>

\* vec.push, the vector's growth capped at MaxRecords
Push(v, x) == IF Len(v) < MaxRecords THEN Append(v, x) ELSE v

\* One iteration of `while cur_addr < end_addr`
MadtRecord ==
    /\ madt_pc = "walk"
    /\ madt_cur < madt_length
    /\ madt_out' = Push(madt_out, [type |-> madt_bytes[madt_cur], at |-> madt_cur])
    /\ madt_cur' = madt_cur + madt_bytes[madt_cur + 1]
    /\ UNCHANGED madt_pc
    /\ MadtIdle

\* The loop ends and parse_apic_sdt returns the APICSDT
MadtReturn ==
    /\ madt_pc = "walk"
    /\ ~(madt_cur < madt_length)
    /\ madt_pc' = "done"
    /\ UNCHANGED <<madt_cur, madt_out>>
    /\ MadtIdle

NextMadt == MadtRecord \/ MadtReturn

\* parse_apic_sdt runs on one CPU with nothing to wait for: it keeps stepping.
SpecMadt == InitMadt /\ [][NextMadt]_vars /\ WF_vars(NextMadt)

\* The records are those of the table in order: the first at the start of
\* the body, each next one at the address of the one before plus its length
\* byte, all before the table end, and the one after the last at or past it.
OneRecordPerHeader ==
    /\ \A k \in 1..Len(madt_out) :
          /\ madt_out[k].at < madt_length
          /\ madt_out[k].type = madt_bytes[madt_out[k].at]
          /\ madt_out[k].at = IF k = 1 THEN MADT_BODY_OFFSET
                              ELSE madt_out[k - 1].at
                                       + madt_bytes[madt_out[k - 1].at + 1]
    /\ IF madt_out = <<>>
       THEN madt_length <= MADT_BODY_OFFSET
       ELSE madt_out[Len(madt_out)].at
                + madt_bytes[madt_out[Len(madt_out)].at + 1] >= madt_length

\* C23: parse_apic_sdt terminates for every MADT content and yields exactly
\* one InterruptControllerStructure per record, in table order: record k+1 is
\* read at the address of record k plus record k's length byte, and the walk
\* stops at the table end without reading a record header at or beyond it.
C23_MadtWalkTerminates ==
    /\ <>(madt_pc = "done")
    /\ [](madt_pc = "done" => OneRecordPerHeader)

\* A table of two records of two bytes each has been walked to its end.
C23_Witness ==
    /\ madt_pc = "done"
    /\ madt_length = MADT_BODY_OFFSET + 4
    /\ madt_out = << [type |-> 0, at |-> MADT_BODY_OFFSET],
                     [type |-> 2, at |-> MADT_BODY_OFFSET + 2] >>

\* The walk that does not end: a record whose length byte is 0 is read again
\* and again, the vector growing each time.
C23_StuckOnZeroLength ==
    /\ madt_pc = "walk"
    /\ madt_cur < madt_length
    /\ madt_bytes[madt_cur + 1] = 0
    /\ Len(madt_out) = MaxRecords

\* What the walk does satisfy: whenever it returns, the records are those of
\* the table in order.
C23_RecordsWhenDone == madt_pc = "done" => OneRecordPerHeader

(***************************************************************************)
(* pit8254::init followed by timer interrupts and sleeps.                  *)
(***************************************************************************)
\* pit8254::init: set_pit_count(TIMER_COUNT + 1) or set_pit_count(TIMER_COUNT)
PitInitialise ==
    /\ ports = <<>>
    /\ ports' = set_pit_count(PitInitCount)
    /\ UNCHANGED <<ticks, prev_ticks, sleep_pc, sleep_start, sleep_millis, sleep_now>>
    /\ PitIdle

NextPitInit ==
    \/ PitInitialise
    \/ PitHandler
    \/ \E ms \in 0..MaxMillis : SleepEnter(ms)
    \/ SleepLoad
    \/ SleepTest
    \/ SleepDone

SpecPitInit == InitPit /\ [][NextPitInit]_vars

\* The reload value channel 0 was given: the low and the high byte written
\* to port 0x40 after the command.
ReloadProgrammed == ports[2][2] + U8 * ports[3][2]

\* PIT_FREQUENCY / (TIMER_FREQUENCY x 2), rounded to the nearest count: plus 1
\* when the remainder exceeds half the divisor.
ReloadRounded ==
    (PIT_FREQUENCY \div (TIMER_FREQUENCY * 2))
        + (IF PIT_FREQUENCY % (TIMER_FREQUENCY * 2) > (TIMER_FREQUENCY * 2) \div 2
           THEN 1 ELSE 0)

\* C24: the reload value that pit8254::init programs equals PIT_FREQUENCY /
\* (TIMER_FREQUENCY x 2), plus 1 exactly when the remainder of that same
\* division exceeds half of the divisor TIMER_FREQUENCY x 2.
C24_ReloadRounded ==
    ports # <<>> =>
        /\ ports[2][1] = PIT_CHANNEL0_PORT /\ ports[3][1] = PIT_CHANNEL0_PORT
        /\ ReloadProgrammed = ReloadRounded

\* init has programmed TIMER_COUNT itself, although the remainder of the
\* division by TIMER_FREQUENCY x 2 is above half the divisor.
C24_Witness ==
    /\ ports # <<>>
    /\ ReloadProgrammed = TIMER_COUNT
    /\ PIT_FREQUENCY % (TIMER_FREQUENCY * 2) > TIMER_FREQUENCY
    /\ ticks > 0

(***************************************************************************)
(* pit_sleep while timer interrupts keep being delivered.  TICKS is capped *)
(* at MaxTicks: a sleep starts only while the ticks it waits for fit under *)
(* the cap, and the last tick under the cap is delivered to a halted or    *)
(* idle CPU, so that the cap never takes away the interrupt that a CPU     *)
(* halting after a tick fell between the load and the hlt still gets.      *)
(***************************************************************************)
\* pit_sleep(ms), called with interrupts enabled
SleepEnterLive(ms) ==
    /\ ticks + ms < MaxTicks
    /\ SleepEnter(ms)

\* pit_handler, on a timer that never stops
PitHandlerLive ==
    /\ sleep_pc \in {"loop", "test"} => ticks + 1 < MaxTicks
    /\ PitHandler

NextPitLive ==
    \/ PitHandlerLive
    \/ \E ms \in 0..MaxMillis : SleepEnterLive(ms)
    \/ SleepLoad
    \/ SleepTest
    \/ SleepDone

\* The timer keeps interrupting and the sleeping CPU keeps executing.
SpecPitLive ==
    /\ InitPit
    /\ [][NextPitLive]_vars
    /\ WF_vars(PitHandlerLive)
    /\ WF_vars(SleepLoad)
    /\ WF_vars(SleepTest)

Sleeping == sleep_pc \in {"loop", "test", "halted"}

\* C25: if timer interrupts keep being delivered, every call pit_sleep(ms)
\* eventually returns; an interrupt that does not advance TICKS past
\* start + ms only wakes the hlt and the loop halts again, and there is no
\* other way out of the wait.
C25_SleepEventuallyReturns ==
    /\ Sleeping ~> (sleep_pc = "returned")
    /\ [](sleep_pc = "returned" => sleep_now - sleep_start > sleep_millis)
    /\ []((sleep_pc = "halted" /\ ticks - sleep_start <= sleep_millis) =>
              sleep_now - sleep_start <= sleep_millis)

\* pit_sleep(3) has returned on the fourth tick after its start, the ticks
\* before it having woken the hlt without ending the wait.
C25_Witness ==
    /\ sleep_pc = "returned"
    /\ sleep_millis = MaxMillis
    /\ sleep_now - sleep_start = sleep_millis + 1
    /\ sleep_start > 0
(***************************************************************************)
(* The assertion of map_to, `P1 slot is unused`, along mm::init.           *)
(***************************************************************************)
\* The P1 slot of page in the active tables holds an entry.
SlotUsed(page) == ~is_unused(P1EntryOf(mem, cr3, page))

\* C26: mm::init never trips the assertion of map_to that the P1 slot is
\* unused: no statement of it panics, and when the heap statement is reached
\* the slot of every heap page, the boundary page heap_addr included, is
\* unused.
C26_SlotsUnusedInInit ==
    /\ pc # "panic"
    /\ (pc = "switched" /\ mm_step = "heap") =>
           \A page \in HeapRange : ~SlotUsed(page)

\* The heap statement has panicked with frames left to allocate: the slot of
\* its first page, the boundary page after the highest mapped range, holds
\* the entry the range's loop wrote.
C26_Witness ==
    /\ MmEnded /\ pc = "panic"
    /\ SlotUsed(heap_addr)
    /\ heap_addr \in {kernel_end(boot), boot_info_end(boot), framebuffer_end(boot)}
    /\ available_memory >= FRAME_SIZE
    /\ FirstClear(bit_map) # NoFrame

\* Up to the heap statement every map_to of mm::init finds its slot unused.
C26_PanicOnlyAtHeap == pc = "panic" => MmEnded
(***************************************************************************)
(* allocate() called again and again after init, with no deallocate, until *)
(* it has answered None on a counter below one frame.                      *)
(***************************************************************************)
\* The last call was an allocate that found available_memory < FRAME_SIZE.
AllocateRefused ==
    /\ hist # <<>>
    /\ Last.op = "allocate" /\ Last.ret = NoFrame
    /\ pre.avail < FRAME_SIZE

ExhaustAllocate ==
    /\ pc = "ready"
    /\ ~AllocateRefused
    /\ DoAllocate

NextExhaust ==
    \/ AllocInit
    \/ ExhaustAllocate

SpecExhaust == Init /\ [][NextExhaust]_vars

\* The frame lies inside a memory area of type Available.
InAvailableArea(bi, number) ==
    \E i \in DOMAIN bi.memory_areas :
        /\ bi.memory_areas[i].available
        /\ bi.memory_areas[i].start <= number * FRAME_SIZE
        /\ (number + 1) * FRAME_SIZE <= bi.memory_areas[i].end

\* The ranges init hands to reserve_area.
ReservedRanges(bi) ==
    {[start |-> 0, end |-> MB],
     [start |-> bi.start_address, end |-> bi.end_address],
     [start |-> bi.fb_address, end |-> bi.fb_address + bi.fb_size],
     [start |-> bi.phys_start_addr, end |-> bi.phys_end_addr]}
        \cup {[start |-> bi.memory_areas[i].start, end |-> bi.memory_areas[i].end] :
                 i \in {j \in DOMAIN bi.memory_areas : ~bi.memory_areas[j].available}}
        \cup {[start |-> bi.elf_sections[i].start, end |-> bi.elf_sections[i].end] :
                 i \in DOMAIN bi.elf_sections}

\* The frame has a byte in one of the reserved ranges.
InReservedRange(bi, number) ==
    \E r \in ReservedRanges(bi) :
        r.start < (number + 1) * FRAME_SIZE /\ number * FRAME_SIZE < r.end

\* C27: for any sequence of allocate() calls after init with no deallocate,
\* every frame returned lies inside a Multiboot2 Available area and outside
\* every reserved range: allocate answers None before it hands out a frame
\* that no available RAM backs.
C27_AllocatedFramesBacked ==
    \A number \in held :
        InAvailableArea(boot, number) /\ ~InReservedRange(boot, number)

\* allocate has just returned the first frame after the last memory area,
\* every frame of the Available areas being in use, and the counter still
\* stands above one frame.
C27_Witness ==
    /\ AllocateReturned
    /\ Last.ret # NoFrame
    /\ ~InAvailableArea(boot, Last.ret)
    /\ \A i \in DOMAIN boot.memory_areas :
          boot.memory_areas[i].end <= Last.ret * FRAME_SIZE
    /\ \A number \in 0..(FRAME_COUNT - 1) :
          InAvailableArea(boot, number) => number \in bit_map
    /\ available_memory >= FRAME_SIZE

\* What init does establish: no frame of a reserved range is handed out.
C27_OutsideReserved ==
    \A number \in held : ~InReservedRange(boot, number)
(***************************************************************************)
(* The counter available_memory under allocate and deallocate, from        *)
(* allocator states with holes, a full bitmap and counters around a frame. *)
(***************************************************************************)
NextCount ==
    \/ HeldAllocate
    \/ \E frame \in held : HeldDeallocate(frame)

SpecCount == InitFirstFit /\ [][NextCount]_vars

DeallocateReturned == pc = "ready" /\ hist # <<>> /\ Last.op = "deallocate"

\* allocate returning Some takes one frame off the counter, deallocate
\* returning puts one back.
CounterSteps ==
    /\ (AllocateReturned /\ Last.ret # NoFrame) =>
           available_memory = pre.avail - FRAME_SIZE
    /\ DeallocateReturned => available_memory = pre.avail + FRAME_SIZE

\* C28: available_memory changes only by -4096 on an allocate that returns
\* Some and by +4096 on a deallocate that does not panic; an allocate that
\* returns None, on a full bitmap too, leaves the bitmap and
\* available_memory as they were; the counter never goes below 0 nor above
\* total_memory.
C28_CounterChanges ==
    /\ CounterSteps
    /\ (AllocateReturned /\ Last.ret = NoFrame) =>
           (available_memory = pre.avail /\ bit_map = pre.bm)
    /\ 0 <= available_memory /\ available_memory <= total_memory

\* allocate has returned None on a full bitmap with a counter of at least
\* one frame, and the counter is one frame lower than before the call.
C28_Witness ==
    /\ AllocateReturned
    /\ Last.ret = NoFrame
    /\ FirstClear(pre.bm) = NoFrame
    /\ pre.avail >= FRAME_SIZE
    /\ available_memory = pre.avail - FRAME_SIZE
    /\ bit_map = pre.bm

\* What the code does keep: the steps of -4096 and +4096, a counter inside
\* 0..total_memory, and None on a counter below one frame changing nothing.
C28_CounterKept ==
    /\ CounterSteps
    /\ (AllocateReturned /\ Last.ret = NoFrame /\ pre.avail < FRAME_SIZE) =>
           (available_memory = pre.avail /\ bit_map = pre.bm)
    /\ 0 <= available_memory /\ available_memory <= total_memory
(***************************************************************************)
(* acpi::init -> enumerate_xsdt: the identity mappings of the ACPI walk.   *)
(* arch::init calls it right after mm::init, so the walk runs on the       *)
(* address space mm::init has built; the heap statement of mm::init, which *)
(* maps pages of the higher half only, is left out.  The tables lie in the *)
(* firmware's reserved area.                                               *)
(***************************************************************************)
\* size_of::<RawACPISDTHeader>(): the 36 bytes of the header and first_entry
RAW_HEADER_SIZE == 44
XSDT_POINTER_SIZE == 8

\* Most table pointers in the XSDT.
MaxSdts == 2

\* First frame of the reserved area the firmware keeps its tables in.
AcpiFrame == 560

\* rsdp_v2.xsdt_address()
root_xsdt_ptr == AcpiFrame * FRAME_SIZE + 232

\* Where the firmware may have put a table: in the page of the XSDT, or in
\* the two pages after it.
SdtPointers ==
    {root_xsdt_ptr + 1024,
     (AcpiFrame + 1) * FRAME_SIZE,
     (AcpiFrame + 1) * FRAME_SIZE + 2048,
     (AcpiFrame + 2) * FRAME_SIZE + 64}

\* Frame::containing_address
Frame_containing_address(addr) == addr \div FRAME_SIZE

\* (root_xsdt.length - size_of::<RawACPISDTHeader>()) / 8 + 1
entries_count(length) == (length - RAW_HEADER_SIZE) \div XSDT_POINTER_SIZE + 1

InitAcpi ==
    /\ InitMmEntry
    /\ WithReset
    /\ MadtReset
    /\ xsdt_entries \in [1..MaxSdts -> SdtPointers]
    /\ xsdt_length \in {RAW_HEADER_SIZE + XSDT_POINTER_SIZE * n : n \in 0..(MaxSdts - 1)}
    /\ sdt_list = <<>>
    /\ acpi_pc = "off"

AcpiIdle ==
    UNCHANGED <<build, boot, total_memory, cr3, table, pml4_backup, nops, held,
                snap, lockvars, pitvars, pkvars, mmvars, withvars, madtvars,
                xsdt_length, xsdt_entries>>

\* mm::identity_map(addr, PRESENT) of the walk, then position `to`.
AcpiIdentityMap(addr, to) ==
    /\ CommitMem(identity_map(Cur, cr3, Frame_containing_address(addr),
                              {"PRESENT"}, "bitmap"),
                 Call("identity_map", PageOfFrame(Frame_containing_address(addr)),
                      Frame_containing_address(addr), {"PRESENT"}, 0),
                 "switched")
    /\ acpi_pc' = to

\* enumerate_xsdt up to its loop: identity_map(root_xsdt_ptr, PRESENT)
AcpiEnumerate ==
    /\ pc = "switched" /\ mm_step = "heap" /\ acpi_pc = "off"
    /\ AcpiIdentityMap(root_xsdt_ptr, "tables")
    /\ UNCHANGED sdt_list
    /\ AcpiIdle

\* The table pointer the loop handles next.
sdt_ptr == xsdt_entries[Len(sdt_list) + 1]

\* One iteration of `for sdt_ptr in sdt_ptrs`: identity_map(*sdt_ptr, PRESENT),
\* then the header is read and pushed onto SDT_LIST.
AcpiTable ==
    /\ pc = "switched" /\ acpi_pc = "tables"
    /\ Len(sdt_list) < entries_count(xsdt_length)
    /\ AcpiIdentityMap(sdt_ptr, "tables")
    /\ sdt_list' = IF pc' = "switched" THEN Append(sdt_list, sdt_ptr) ELSE sdt_list
    /\ AcpiIdle

\* The loop has handled every pointer: enumerate_xsdt returns.
AcpiReturn ==
    /\ pc = "switched" /\ acpi_pc = "tables"
    /\ Len(sdt_list) = entries_count(xsdt_length)
    /\ acpi_pc' = "done"
    /\ UNCHANGED <<memvars, lockvars, pitvars, pkvars, mmvars, withvars, madtvars,
                   xsdt_length, xsdt_entries, sdt_list>>

NextAcpi ==
    \/ MmSetup
    \/ WithEnter
    \/ InitMapKernel
    \/ InitMapBootInfo
    \/ InitMapFramebuffer
    \/ InitWithExit
    \/ InitSwitch
    \/ InitUnmapGuard
    \/ AcpiEnumerate
    \/ AcpiTable
    \/ AcpiReturn

SpecAcpi == InitAcpi /\ [][NextAcpi]_vars

\* The walk is about to call identity_map on addr.
AcpiCalls(addr) ==
    /\ pc = "switched" /\ mm_step = "heap"
    /\ \/ acpi_pc = "off" /\ addr = root_xsdt_ptr
       \/ /\ acpi_pc = "tables"
          /\ Len(sdt_list) < entries_count(xsdt_length)
          /\ addr = sdt_ptr

\* C29: the ACPI walk never calls identity_map on a page that is already
\* mapped, also when the XSDT and tables share a 4 KiB page: every call
\* finds the slot of its page unused and the walk does not panic.
C29_WalkMapsUnmappedPages ==
    /\ \A addr \in SdtPointers \cup {root_xsdt_ptr} :
          AcpiCalls(addr) => ~SlotUsed(PageOfFrame(Frame_containing_address(addr)))
    /\ acpi_pc # "off" => pc # "panic"

\* The first table lies in the page of the XSDT, which the walk had mapped
\* for the XSDT: the identity_map for the table has panicked.
C29_Witness ==
    /\ acpi_pc = "tables" /\ pc = "panic"
    /\ sdt_list = <<>>
    /\ xsdt_entries[1] # root_xsdt_ptr
    /\ Frame_containing_address(xsdt_entries[1]) = Frame_containing_address(root_xsdt_ptr)
    /\ translate_page(mem, cr3, PageOfFrame(Frame_containing_address(root_xsdt_ptr)))
          = Frame_containing_address(root_xsdt_ptr)

\* The pages of the XSDT and of the pointers the loop reads are all different.
AcpiPagesDistinct ==
    \A i \in 1..entries_count(xsdt_length) :
        /\ Frame_containing_address(xsdt_entries[i])
              # Frame_containing_address(root_xsdt_ptr)
        /\ \A j \in 1..(i - 1) :
              Frame_containing_address(xsdt_entries[j])
                  # Frame_containing_address(xsdt_entries[i])

\* The walk panics only on tables that share a page with the XSDT or with
\* one another.
C29_PanicOnlyOnSharedPage ==
    (acpi_pc # "off" /\ pc = "panic") => ~AcpiPagesDistinct
(***************************************************************************)
(* The frames TemporaryPage keeps free in its ThreeFramesAllocator.        *)
(***************************************************************************)
\* The frames in the Some slots of temporary_page.frame_allocator.
ScratchFrames == {scratch[i] : i \in DOMAIN scratch} \ {NoFrame}

\* InactivePML4::new has returned and with has not been entered, or with
\* has returned.
TemporaryPageIdle == pc \in {"ready", "returned"} /\ table # NoFrame

\* C30: a frame TemporaryPage keeps free in its three-slot allocator is
\* never at the same time in use as a PML4: after InactivePML4::new and
\* after with have returned, no slot holds the frame of the inactive PML4
\* or the frame of the PML4 in CR3.
C30_ScratchHoldsNoTable ==
    TemporaryPageIdle => (table \notin ScratchFrames /\ cr3 \notin ScratchFrames)

\* with has returned: the first slot holds the inactive PML4's frame, put
\* there by the unmap of InactivePML4::new, the second the frame of the
\* PML4 in CR3, put there by the unmap of with; both are live tables whose
\* recursive entries point to themselves.
C30_Witness ==
    /\ pc = "returned" /\ table # NoFrame
    /\ scratch[1] = table
    /\ scratch[2] = cr3
    /\ Read(mem, table, RECURSIVE_INDEX).addr = table
    /\ Read(mem, cr3, RECURSIVE_INDEX).addr = cr3

\* Between the calls the frames of the tables that map the temporary page,
\* taken from the three slots, are not in a slot.
C30_TempTablesNotFree ==
    TemporaryPageIdle =>
        \A depth \in 1..3 :
            TableAt(mem, cr3, SubSeq(TempPage, 1, depth)) \notin ScratchFrames
====
